---- MODULE Spec2Model ----
(***************************************************************************)
(* A model of github.com/k0sproject/version: the version parser and its    *)
(* canonical rendering, the precedence order, the constraint evaluator,    *)
(* and the catalog loader with its cache file.                             *)
(*                                                                         *)
(* Go strings are modelled as sequences of one-character strings, so that  *)
(* parsing and rendering are real conversions: "v1.0" is <<"v","1",".",    *)
(* "0">>.  Go's int is taken to be 64 bits wide (the amd64/arm64 builds);  *)
(* the numbers of the model stay below 2^31.                               *)
(***************************************************************************)
EXTENDS Integers, Sequences, FiniteSets, TLC

VARIABLES
    pc,         \* position of the caller inside the scenario
    in1,        \* first input string (a version, or a constraint)
    in2,        \* second input string (a version)
    out,        \* result of the last operation
    cacheFile,  \* the cache file: [exists, lines, mtime]
    now,        \* the wall clock, in minutes
    remote,     \* the answer the tag source will give to the next request
    call,       \* the loadAll invocation in progress or last finished
    coll,       \* the collection handed to writeCache
    wr,         \* the writeCache in progress
    rd          \* what a concurrent reader of the cache file got

vars == <<pc, in1, in2, out, cacheFile, now, remote, call, coll, wr, rd>>

\* The nil *Version: a record of its own shape, so that it compares with parsed versions.
Nil == [nil |-> TRUE]

-----------------------------------------------------------------------------
(* Bytes and strings                                                       *)

Digits == <<"0", "1", "2", "3", "4", "5", "6", "7", "8", "9">>

Letters ==
    <<"a", "b", "c", "d", "e", "f", "g", "h", "i", "j", "k", "l", "m",
      "n", "o", "p", "q", "r", "s", "t", "u", "v", "w", "x", "y", "z">>

\* The bytes the model uses, in ascending byte order.
AsciiOrder == <<" ", "!", "+", ",", "-", ".">> \o Digits \o <<"<", "=", ">", "A">> \o Letters

Ord(c) == CHOOSE i \in 1..Len(AsciiOrder) : AsciiOrder[i] = c

IsDigit(c) == \E i \in 1..Len(Digits) : Digits[i] = c

IsLower(c) == \E i \in 1..Len(Letters) : Letters[i] = c

DigitVal(c) == (CHOOSE i \in 1..Len(Digits) : Digits[i] = c) - 1

RECURSIVE StrLess(_, _)
\* Go's < on strings: byte-wise lexicographic, a proper prefix is smaller.
StrLess(s, t) ==
    IF t = <<>> THEN FALSE
    ELSE IF s = <<>> THEN TRUE
    ELSE IF Ord(Head(s)) < Ord(Head(t)) THEN TRUE
    ELSE IF Ord(Head(s)) > Ord(Head(t)) THEN FALSE
    ELSE StrLess(Tail(s), Tail(t))

\* strings.Index / strings.IndexAny for single bytes: 0-based, -1 when absent.
IndexAny(s, cs) ==
    IF \E i \in 1..Len(s) : s[i] \in cs
    THEN (CHOOSE i \in 1..Len(s) : s[i] \in cs /\ \A j \in 1..(i-1) : s[j] \notin cs) - 1
    ELSE -1

Index(s, c) == IndexAny(s, {c})

\* Go's s[i:j] with 0-based bounds.
Slice(s, i, j) == SubSeq(s, i + 1, j)

RECURSIVE Split(_, _)
\* strings.Split(s, sep) for a one-byte separator.
Split(s, sep) ==
    LET i == Index(s, sep)
    IN IF i = -1 THEN <<s>>
       ELSE <<Slice(s, 0, i)>> \o Split(Slice(s, i + 1, Len(s)), sep)

RECURSIVE Join(_, _)
Join(parts, sep) ==
    IF parts = <<>> THEN <<>>
    ELSE IF Len(parts) = 1 THEN parts[1]
    ELSE parts[1] \o sep \o Join(Tail(parts), sep)

RECURSIVE Concat(_)
Concat(parts) == IF parts = <<>> THEN <<>> ELSE Head(parts) \o Concat(Tail(parts))

RECURSIVE StripZeros(_)
StripZeros(s) == IF Len(s) > 1 /\ Head(s) = "0" THEN StripZeros(Tail(s)) ELSE s

RECURSIVE DecValue(_)
DecValue(s) == IF s = <<>> THEN 0 ELSE DecValue(SubSeq(s, 1, Len(s) - 1)) * 10 + DigitVal(s[Len(s)])

\* math.MaxUint32 as a decimal numeral.
MaxUint32Numeral == <<"4", "2", "9", "4", "9", "6", "7", "2", "9", "5">>

\* strconv.ParseUint(s, 10, 32): an empty string or a non-digit is a syntax
\* error, a value above 2^32-1 is a range error.
ParseUint(s) ==
    IF s = <<>> \/ \E i \in 1..Len(s) : ~IsDigit(s[i]) THEN [ok |-> FALSE, val |-> 0]
    ELSE LET n == StripZeros(s)
         IN IF Len(n) > Len(MaxUint32Numeral)
               \/ (Len(n) = Len(MaxUint32Numeral) /\ StrLess(MaxUint32Numeral, n))
            THEN [ok |-> FALSE, val |-> 0]
            ELSE [ok |-> TRUE, val |-> DecValue(n)]

RECURSIVE Itoa(_)
\* strconv.Itoa for a non-negative number.
Itoa(n) == IF n < 10 THEN <<Digits[n + 1]>> ELSE Itoa(n \div 10) \o <<Digits[(n % 10) + 1]>>

-----------------------------------------------------------------------------
(* version.go: the Version value, NewVersion, String, Compare              *)

k0s == <<"k", "0", "s">>

maxSegments == 3

\* The value behind a *Version (comparableFields); the cached string s is
\* a function of these fields and is not modelled.
MkVersion(segs, n, pre, isK0s, k0sN, meta) ==
    [segments |-> segs, numSegments |-> n, pre |-> pre, isK0s |-> isK0s, k0s |-> k0sN, meta |-> meta]

ParseError == [err |-> TRUE, v |-> Nil]

ParseOk(v) == [err |-> FALSE, v |-> v]

\* The byte test of NewVersion's first loop.
AllowedChar(c) == IsLower(c) \/ IsDigit(c) \/ c = "+" \/ c = "-" \/ c = "."

\* The loop over metaParts: what part idx (0-based) appends to newMeta.
MetaPiece(metaParts, idx) ==
    LET part == metaParts[idx + 1]
        n == Len(metaParts)
    IN IF part = k0s /\ idx < n - 1 THEN <<>>
       ELSE IF idx > 0 /\ metaParts[idx] # k0s
            THEN part \o (IF idx < n - 1 THEN <<".">> ELSE <<>>)
            ELSE <<>>

\* The 0-based positions of the loop at which isK0s and k0s are assigned.
K0sHits(metaParts) ==
    {idx \in 0..(Len(metaParts) - 2) :
        metaParts[idx + 1] = k0s /\ ParseUint(metaParts[idx + 2]).ok}

Max(S) == CHOOSE x \in S : \A y \in S : y <= x

NewVersion(v0) ==
    LET v1 == IF Len(v0) > 0 /\ v0[1] = "v" THEN Tail(v0) ELSE v0
    IN IF v1 = <<>> THEN ParseError
       ELSE IF \E i \in 1..Len(v1) : ~AllowedChar(v1[i]) THEN ParseError
       ELSE
        LET idx == IndexAny(v1, {"-", "+"})
            extra == IF idx >= 0 THEN Slice(v1, idx, Len(v1)) ELSE <<>>
            v == IF idx >= 0 THEN Slice(v1, 0, idx) ELSE v1
            segments == Split(v, ".")
        IN IF Len(segments) > maxSegments THEN ParseError
           ELSE IF \E i \in 1..Len(segments) : ~ParseUint(segments[i]).ok THEN ParseError
           ELSE
            LET segs == [i \in 1..maxSegments |->
                            IF i <= Len(segments) THEN ParseUint(segments[i]).val ELSE 0]
                n == Len(segments)
                plusIndex == Index(extra, "+")
                minusIndex == IF plusIndex = -1 THEN Index(extra, "-")
                              ELSE Index(Slice(extra, 0, plusIndex), "-")
                pre == IF minusIndex # -1
                       THEN IF plusIndex = -1 THEN Slice(extra, minusIndex + 1, Len(extra))
                            ELSE Slice(extra, minusIndex + 1, plusIndex)
                       ELSE <<>>
            IN IF extra = <<>> THEN ParseOk(MkVersion(segs, n, <<>>, FALSE, 0, <<>>))
               ELSE IF plusIndex = -1 THEN ParseOk(MkVersion(segs, n, pre, FALSE, 0, <<>>))
               ELSE
                LET meta == Slice(extra, plusIndex + 1, Len(extra))
                    metaParts == Split(meta, ".")
                    hits == K0sHits(metaParts)
                IN IF Len(metaParts) = 1 THEN ParseOk(MkVersion(segs, n, pre, FALSE, 0, meta))
                   ELSE ParseOk(MkVersion(segs, n, pre,
                            hits # {},
                            IF hits = {} THEN 0 ELSE ParseUint(metaParts[Max(hits) + 2]).val,
                            Concat([i \in 1..Len(metaParts) |-> MetaPiece(metaParts, i - 1)])))

\* Version.Segments: always maxSegments long, missing segments are zero.
Segments(v) == [i \in 1..maxSegments |-> IF i <= v.numSegments THEN v.segments[i] ELSE 0]

Prerelease(v) == v.pre

IsPrerelease(v) == v.pre # <<>>

\* Version.String: the canonical rendering.
String(v) ==
    IF v = Nil THEN <<>>
    ELSE IF v.numSegments = 0 THEN <<>>
    ELSE <<"v">>
         \o Join([i \in 1..v.numSegments |-> Itoa(v.segments[i])], <<".">>)
         \o (IF v.pre # <<>> THEN <<"-">> \o v.pre ELSE <<>>)
         \o (IF v.isK0s \/ v.meta # <<>> THEN <<"+">> ELSE <<>>)
         \o (IF v.isK0s
             THEN k0s \o <<".">> \o Itoa(v.k0s) \o (IF v.meta # <<>> THEN <<".">> ELSE <<>>)
             ELSE <<>>)
         \o (IF v.meta # <<>> THEN v.meta ELSE <<>>)

\* The first numeric segment (1-based) at which v and b differ, 0 if none.
FirstDiff(v, b) ==
    IF \E i \in 1..maxSegments : Segments(v)[i] # Segments(b)[i]
    THEN CHOOSE i \in 1..maxSegments :
            /\ Segments(v)[i] # Segments(b)[i]
            /\ \A j \in 1..(i - 1) : Segments(v)[j] = Segments(b)[j]
    ELSE 0

\* Compare without the "k0s-tagged beats untagged" step.
CompareNoK0sFlag(v, b) ==
    LET d == FirstDiff(v, b)
    IN IF d # 0 THEN (IF Segments(v)[d] < Segments(b)[d] THEN -1 ELSE 1)
       ELSE IF v.pre = <<>> /\ b.pre # <<>> THEN 1
       ELSE IF v.pre # <<>> /\ b.pre = <<>> THEN -1
       ELSE IF StrLess(v.pre, b.pre) THEN -1
       ELSE IF StrLess(b.pre, v.pre) THEN 1
       ELSE IF v.k0s > b.k0s THEN 1
       ELSE IF v.k0s < b.k0s THEN -1
       ELSE 0

\* Compare without the "v is pre, b is stable" step.
CompareOneSidedPre(v, b) ==
    LET d == FirstDiff(v, b)
    IN IF d # 0 THEN (IF Segments(v)[d] < Segments(b)[d] THEN -1 ELSE 1)
       ELSE IF v.pre = <<>> /\ b.pre # <<>> THEN 1
       ELSE IF StrLess(v.pre, b.pre) THEN -1
       ELSE IF StrLess(b.pre, v.pre) THEN 1
       ELSE IF v.isK0s /\ ~b.isK0s THEN 1
       ELSE IF ~v.isK0s /\ b.isK0s THEN -1
       ELSE IF v.k0s > b.k0s THEN 1
       ELSE IF v.k0s < b.k0s THEN -1
       ELSE 0

\* Version.Compare.  Two distinct parsed versions are never the same pointer,
\* and comparing a pointer with itself gives 0 on either path.
Compare(v, b) ==
    IF v = Nil /\ b = Nil THEN -1
    ELSE IF v = Nil /\ b # Nil THEN -1
    ELSE IF v # Nil /\ b = Nil THEN 1
    ELSE
        LET d == FirstDiff(v, b)
        IN IF d # 0 THEN (IF Segments(v)[d] < Segments(b)[d] THEN -1 ELSE 1)
           ELSE IF v.pre = <<>> /\ b.pre # <<>> THEN 1
           ELSE IF v.pre # <<>> /\ b.pre = <<>> THEN -1
           ELSE IF StrLess(v.pre, b.pre) THEN -1
           ELSE IF StrLess(b.pre, v.pre) THEN 1
           ELSE IF v.isK0s /\ ~b.isK0s THEN 1
           ELSE IF ~v.isK0s /\ b.isK0s THEN -1
           ELSE IF v.k0s > b.k0s THEN 1
           ELSE IF v.k0s < b.k0s THEN -1
           ELSE 0

Equal(v, b) == IF v = Nil \/ b = Nil THEN FALSE ELSE Compare(v, b) = 0

GreaterThan(v, b) == Compare(v, b) = 1

LessThan(v, b) == Compare(v, b) = -1

GreaterThanOrEqual(v, b) == Compare(v, b) >= 0

LessThanOrEqual(v, b) == Compare(v, b) <= 0

-----------------------------------------------------------------------------
(* constraint: constraintRegex, NewConstraint, parseSegment, Check         *)

IsSpace(c) == c = " "

RECURSIVE LeadingSpaces(_)
LeadingSpaces(s) == IF s # <<>> /\ IsSpace(Head(s)) THEN 1 + LeadingSpaces(Tail(s)) ELSE 0

HasPrefix(s, p) == Len(s) >= Len(p) /\ SubSeq(s, 1, Len(p)) = p

\* The alternatives of the operator group, in the order the regexp tries
\* them: >= | > | <= | < | != | == | = .
RegexOps ==
    << <<">", "=">>, <<">">>, <<"<", "=">>, <<"<">>, <<"!", "=">>, <<"=", "=">>, <<"=">> >>

NoMatch == [matched |-> FALSE, op |-> <<>>, rest |-> <<>>]

Match(op, rest) == [matched |-> TRUE, op |-> op, rest |-> rest]

\* One alternative of the operator group against t, followed by \s*(.+)\s*$:
\* the spaces are taken greedily and given back one at a time until (.+)
\* has a byte to match; (.+) then runs to the end of the string.
MatchWithOp(t, op) ==
    IF ~HasPrefix(t, op) THEN NoMatch
    ELSE LET after == SubSeq(t, Len(op) + 1, Len(t))
             w == LeadingSpaces(after)
         IN IF Len(after) > w THEN Match(op, SubSeq(after, w + 1, Len(after)))
            ELSE IF w > 0 THEN Match(op, <<after[Len(after)]>>)
            ELSE NoMatch

\* constraintRegex.FindStringSubmatch(s), leftmost-first: leading spaces
\* greedily, then the first operator alternative that lets the rest match,
\* then no operator at all.
RegexMatchRest(t) ==
    IF \E i \in 1..Len(RegexOps) : MatchWithOp(t, RegexOps[i]).matched
    THEN MatchWithOp(t, RegexOps[CHOOSE i \in 1..Len(RegexOps) :
            /\ MatchWithOp(t, RegexOps[i]).matched
            /\ \A j \in 1..(i - 1) : ~MatchWithOp(t, RegexOps[j]).matched])
    ELSE Match(<<>>, t)

FindStringSubmatch(s) ==
    LET w == LeadingSpaces(s)
    IN IF s = <<>> THEN NoMatch
       ELSE IF Len(s) > w THEN RegexMatchRest(SubSeq(s, w + 1, Len(s)))
       ELSE Match(<<>>, <<s[Len(s)]>>)

\* opfunc: the comparison function of an operator, by name.
opfunc(op) ==
    IF op \in {<<>>, <<"=">>, <<"=", "=">>} THEN [err |-> FALSE, f |-> "eq"]
    ELSE IF op = <<">">> THEN [err |-> FALSE, f |-> "gt"]
    ELSE IF op = <<">", "=">> THEN [err |-> FALSE, f |-> "gte"]
    ELSE IF op = <<"<">> THEN [err |-> FALSE, f |-> "lt"]
    ELSE IF op = <<"<", "=">> THEN [err |-> FALSE, f |-> "lte"]
    ELSE IF op = <<"!", "=">> THEN [err |-> FALSE, f |-> "neq"]
    ELSE [err |-> TRUE, f |-> "none"]

gt(a, b) == GreaterThan(b, a)

lt(a, b) == LessThan(b, a)

gte(a, b) == GreaterThanOrEqual(b, a)

lte(a, b) == LessThanOrEqual(b, a)

eq(a, b) == Equal(b, a)

neq(a, b) == ~Equal(b, a)

\* Calling the constraintFunc named f.
CallFunc(f, a, b) ==
    CASE f = "gt" -> gt(a, b)
      [] f = "lt" -> lt(a, b)
      [] f = "gte" -> gte(a, b)
      [] f = "lte" -> lte(a, b)
      [] f = "eq" -> eq(a, b)
      [] f = "neq" -> neq(a, b)

SegmentError == [err |-> TRUE, segments |-> <<>>]

Contains(s, c) == Index(s, c) # -1

RECURSIVE parseSegment(_)
parseSegment(s) ==
    LET match == FindStringSubmatch(s)
    IN IF ~match.matched THEN SegmentError
       ELSE
        LET op == match.op
            fn == opfunc(op)
            vSegments == Split(match.rest, ".")
            lastSegment == vSegments[Len(vSegments)]
            dashed == Contains(lastSegment, "-")
            parts == Split(lastSegment, "-")
            pre == IF dashed THEN <<"-">> \o parts[2] ELSE <<>>
            first == IF dashed /\ Len(vSegments) = 1 THEN parts[1] ELSE vSegments[1]
            second == IF dashed THEN parts[1] ELSE lastSegment
            target == NewVersion(match.rest)
        IN IF fn.err THEN SegmentError
           ELSE IF op \notin {<<>>, <<"=">>, <<"=", "=">>} /\ Len(vSegments) = 1
                THEN parseSegment(op \o <<" ">> \o first \o <<".", "0", ".", "0">> \o pre)
           ELSE IF op \notin {<<>>, <<"=">>, <<"=", "=">>} /\ Len(vSegments) = 2
                THEN parseSegment(op \o <<" ">> \o first \o <<".">> \o second \o <<".", "0">> \o pre)
           ELSE IF target.err THEN SegmentError
           ELSE [err |-> FALSE, segments |-> << [f |-> fn.f, b |-> target.v] >>]

\* NewConstraint: the segments of every comma-separated part, or the first error.
NewConstraint(cs) ==
    LET parts == Split(cs, ",")
        parsed == [i \in 1..Len(parts) |-> parseSegment(parts[i])]
    IN IF \E i \in 1..Len(parts) : parsed[i].err
       THEN [err |-> TRUE, segments |-> <<>>]
       ELSE [err |-> FALSE, segments |-> Concat([i \in 1..Len(parts) |-> parsed[i].segments])]

\* Check without the prerelease gate.
CheckUngated(cs, v) == \A i \in 1..Len(cs.segments) : CallFunc(cs.segments[i].f, cs.segments[i].b, v)

\* Constraint.Check
Check(cs, v) ==
    \A i \in 1..Len(cs.segments) :
        /\ ~(Prerelease(cs.segments[i].b) = <<>> /\ Prerelease(v) # <<>>)
        /\ CallFunc(cs.segments[i].f, cs.segments[i].b, v)

-----------------------------------------------------------------------------
(* collection.go: the cache file, writeCache, newCollectionFromCache       *)

\* CacheMaxAge, in minutes.
CacheMaxAge == 60

\* The zero time.Time.
ZeroTime == 0

Range(f) == {f[i] : i \in DOMAIN f}

Reverse(seq) == [i \in 1..Len(seq) |-> seq[Len(seq) + 1 - i]]

\* The arrangements of arr with x inserted that are sorted by Compare.
InsertSorted(x, arr) ==
    {SubSeq(arr, 1, k) \o <<x>> \o SubSeq(arr, k + 1, Len(arr)) :
        k \in {j \in 0..Len(arr) : /\ \A i \in 1..j : Compare(arr[i], x) <= 0
                                   /\ \A i \in (j + 1)..Len(arr) : Compare(x, arr[i]) <= 0}}

RECURSIVE SortOutcomes(_)
\* slices.SortFunc(values, Compare) on the elements of seq: the sort is not
\* stable and (in collectionFromMap) its input comes in map order, so every
\* arrangement that is sorted by Compare is a possible outcome.
SortOutcomes(seq) ==
    IF seq = <<>> THEN {<<>>}
    ELSE UNION {InsertSorted(Head(seq), arr) : arr \in SortOutcomes(Tail(seq))}

RECURSIVE TrimLeft(_)
TrimLeft(s) == IF s # <<>> /\ IsSpace(Head(s)) THEN TrimLeft(Tail(s)) ELSE s

\* strings.TrimSpace
TrimSpace(s) == Reverse(TrimLeft(Reverse(TrimLeft(s))))

\* One scanned line, already trimmed and parsed, appended to the collection
\* unless it is blank, a # comment or unparsable.
AppendLine(collection, line, parsed) ==
    IF line = <<>> \/ HasPrefix(line, <<"#">>) \/ parsed.err THEN collection
    ELSE Append(collection, parsed.v)

\* readCollection from line i on, with the collection read so far.
RECURSIVE ScanLines(_, _, _)
ScanLines(lines, i, collection) ==
    IF i > Len(lines) THEN collection
    ELSE ScanLines(lines, i + 1,
                   AppendLine(collection, TrimSpace(lines[i]), NewVersion(TrimSpace(lines[i]))))

\* readCollection: blank lines, # comments and unparsable lines are skipped.
readCollection(lines) == ScanLines(lines, 1, <<>>)

NoFile == [exists |-> FALSE, lines |-> <<>>, mtime |-> ZeroTime]

\* The return of newCollectionFromCache once the file is read.
CacheReadResult(collection, modTime) ==
    IF Len(collection) = 0
    THEN [collection |-> <<>>, modTime |-> modTime, err |-> "miss"]
    ELSE [collection |-> collection, modTime |-> modTime, err |-> "none"]

\* newCollectionFromCache on the file f; ioErr stands for a failure to
\* locate, open (other than "not exist"), stat or read the file.
newCollectionFromCache(f, ioErr) ==
    IF ioErr THEN [collection |-> <<>>, modTime |-> ZeroTime, err |-> "io"]
    ELSE IF ~f.exists THEN [collection |-> <<>>, modTime |-> ZeroTime, err |-> "miss"]
    ELSE CacheReadResult(readCollection(f.lines), f.mtime)

\* The lines writeCache builds from an arrangement sorted by Compare:
\* reversed, one String per line.
CacheLines(ordered) == [i \in 1..Len(ordered) |-> String(Reverse(ordered)[i])]

\* The contents writeCache may hand to os.WriteFile for the collection c.
writeCacheData(c) ==
    {CacheLines(ordered) : ordered \in SortOutcomes(SelectSeq(c, LAMBDA v : v # Nil))}

\* The file after a successful os.WriteFile of lines at time t.
WrittenFile(lines, t) == [exists |-> TRUE, lines |-> lines, mtime |-> t]

-----------------------------------------------------------------------------
(* collection.go: loadAll, collectionFromMap                               *)

\* known[key] = v
Put(known, key, v) == [k \in (DOMAIN known) \cup {key} |-> IF k = key THEN v ELSE known[k]]

\* The map known after inserting the versions of seq in order, keyed by
\* String: a function from keys to versions.
RECURSIVE PutAll(_, _)
PutAll(known, seq) ==
    IF seq = <<>> THEN known
    ELSE PutAll(Put(known, String(Head(seq)), Head(seq)), Tail(seq))

EmptyMap == [k \in {} |-> Nil]

\* The body of the loop over the fetched tags for one tag, already parsed
\* and rendered: unparsable tags and known keys are skipped.
MergeTag(known, parsed, key) ==
    IF parsed.err \/ key \in DOMAIN known THEN known ELSE Put(known, key, parsed.v)

\* String of a parse result, the empty string for nil.
KeyOf(parsed) == IF parsed.err THEN <<>> ELSE String(parsed.v)

\* The loop over the fetched tags, with no tag added.
MergeTagsNone(known, tags) == known

RECURSIVE MergeTags(_, _)
\* The loop over the fetched tags.
MergeTags(known, tags) ==
    IF tags = <<>> THEN known
    ELSE MergeTags(MergeTag(known, NewVersion(Head(tags)), KeyOf(NewVersion(Head(tags)))), Tail(tags))

\* Some enumeration of a finite set as a sequence.
RECURSIVE SeqOf(_)
SeqOf(S) == IF S = {} THEN <<>> ELSE LET x == CHOOSE y \in S : TRUE IN <<x>> \o SeqOf(S \ {x})

\* collectionFromMap: the possible results (nil, the empty sequence, for an
\* empty map).
collectionFromMap(m) ==
    SortOutcomes(SelectSeq(SeqOf({m[k] : k \in DOMAIN m}), LAMBDA v : v # Nil))

-----------------------------------------------------------------------------
(* Input strings                                                           *)

\* Longest string of the exhaustive part of the parser's inputs.
MaxLen == 4

\* Largest numeric segment and largest k0s build number of the ordered inputs.
MaxSegVal == 1

MaxK0s == 1

ParseAlphabet == {"v", "1", ".", "-", "+", "a"}

RECURSIVE StringsUpTo(_, _)
StringsUpTo(alphabet, n) ==
    IF n = 0 THEN {<<>>}
    ELSE LET shorter == StringsUpTo(alphabet, n - 1)
         IN shorter \cup {Append(s, c) : s \in {t \in shorter : Len(t) = n - 1}, c \in alphabet}

\* Strings taken from the repository's tests and documentation, and the
\* numerals around the 32-bit limit.
NamedInputs ==
    { <<"v", "1", ".", "2", "6", ".", "0", "+", "k", "0", "s", ".", "0", "-", "r", "c", ".", "1">>,
      <<"1", ".", "2", "3", ".", "3", "+", "k", "0", "s", ".", "1">>,
      <<"v", "1", ".", "2", "3", ".", "b", "+", "k", "0", "s", ".", "1">>,
      <<"1", ".", "1", ".", "0", "-", "b", "e", "t", "a", ".", "1", "+", "k", "0", "s", ".", "1">>,
      <<"1", "+", "a", ".", "b", ".", "c">>,
      <<"1", "+", "a", ".", "k", "0", "s", ".", "7">>,
      <<"1", "+", "k", "0", "s", ".", "7", ".", "a", ".", "b">>,
      <<"1", "+", "k", "0", "s", ".", "x", ".", "a">>,
      <<"1", "+", "a", "+", "b">>,
      <<"1", "-", "a", "-", "b", "+", "c", "-", "d">>,
      <<"0", "1", ".", "0", "0", "2">>,
      <<"1", ".", "2", ".", "3", ".", "4">>,
      <<"1", ".", "0", "A">>,
      <<"1", ".", "0", " ">>,
      <<"2", "1", "4", "7", "4", "8", "3", "6", "4", "7">>,
      <<"4", "2", "9", "4", "9", "6", "7", "2", "9", "6">>,
      <<"1", ".", "4", "2", "9", "4", "9", "6", "7", "2", "9", "6">>,
      <<"0", "0", "0", "0", "0", "0", "0", "0", "0", "0", "1">> }

ParseInputs == StringsUpTo(ParseAlphabet, MaxLen) \cup NamedInputs

\* Numeric cores of one, two and three segments.
Cores ==
    LET vals == 0..MaxSegVal
    IN {<<m>> : m \in vals} \cup {<<m, n>> : m \in vals, n \in vals}
       \cup {<<m, n, p>> : m \in vals, n \in vals, p \in vals}

CoreString(core) == Join([i \in 1..Len(core) |-> Itoa(core[i])], <<".">>)

Pres == {<<>>, <<"-", "0">>, <<"-", "z">>}

Metas == {<<>>, <<"+", "z">>} \cup {<<"+">> \o k0s \o <<".">> \o Itoa(n) : n \in 0..MaxK0s}

\* The inputs of the precedence checks: every core on its own, and the
\* spellings of 1.0.0 with every prerelease and build-metadata tail.
OrderInputs ==
    {CoreString(core) : core \in Cores}
    \cup {CoreString(core) \o pre \o meta :
            core \in {<<1>>, <<1, 0, 0>>}, pre \in Pres, meta \in Metas}

OrderVersions == {NewVersion(s).v : s \in OrderInputs}

NoValue == [none |-> TRUE]

LoaderIdle ==
    /\ cacheFile = NoValue
    /\ now = 0
    /\ remote = NoValue
    /\ call = NoValue
    /\ coll = NoValue
    /\ wr = NoValue
    /\ rd = NoValue

LoaderVars == <<cacheFile, now, remote, call, coll, wr, rd>>

-----------------------------------------------------------------------------
(* Parsing and rendering one string                                        *)

InitParse ==
    /\ pc = "start"
    /\ in1 \in ParseInputs
    /\ in2 = <<>>
    /\ out = NoValue
    /\ LoaderIdle

\* v, err := NewVersion(in1)
ParseStep ==
    /\ pc = "start"
    /\ pc' = "parsed"
    /\ out' = [parsed |-> NewVersion(in1)]
    /\ UNCHANGED <<in1, in2, LoaderVars>>

\* r := v.String()
RenderStep ==
    /\ pc = "parsed"
    /\ ~out.parsed.err
    /\ pc' = "rendered"
    /\ out' = [parsed |-> out.parsed, r |-> String(out.parsed.v)]
    /\ UNCHANGED <<in1, in2, LoaderVars>>

\* v2, err2 := NewVersion(r); r2 := v2.String()
ReparseStep ==
    /\ pc = "rendered"
    /\ pc' = "reparsed"
    /\ LET again == NewVersion(out.r)
       IN out' = [parsed |-> out.parsed, r |-> out.r, again |-> again, r2 |-> String(again.v)]
    /\ UNCHANGED <<in1, in2, LoaderVars>>

NextParse == ParseStep \/ RenderStep \/ ReparseStep

SpecParse == InitParse /\ [][NextParse]_vars

-----------------------------------------------------------------------------
(* Comparing two parsed versions                                           *)

InitOrder ==
    /\ pc = "start"
    /\ in1 \in OrderInputs
    /\ in2 \in OrderInputs
    /\ out = NoValue
    /\ LoaderIdle

\* a := MustParse(in1); b := MustParse(in2)
ParseBoth ==
    /\ pc = "start"
    /\ pc' = "parsed"
    /\ out' = [a |-> NewVersion(in1).v, b |-> NewVersion(in2).v]
    /\ UNCHANGED <<in1, in2, LoaderVars>>

\* Every comparison method of a against b, and of b against a.
CompareStep ==
    /\ pc = "parsed"
    /\ pc' = "compared"
    /\ out' = [a |-> out.a, b |-> out.b,
               cmp |-> Compare(out.a, out.b),
               rev |-> Compare(out.b, out.a),
               self |-> Compare(out.a, out.a),
               eq |-> Equal(out.a, out.b),
               lt |-> LessThan(out.a, out.b),
               gt |-> GreaterThan(out.a, out.b),
               le |-> LessThanOrEqual(out.a, out.b),
               ge |-> GreaterThanOrEqual(out.a, out.b)]
    /\ UNCHANGED <<in1, in2, LoaderVars>>

\* a.segmentEqual(b, n): the n-th numeric segments (counted from 0) are
\* equal ("majors equal", "major+minor equal").
segmentEqual(a, b, n) == Segments(a)[n + 1] = Segments(b)[n + 1]

\* v.Patch(): the version cut to major.minor.patch ("same patch").
Patch(v) == <<Segments(v)[1], Segments(v)[2], Segments(v)[3]>>

\* NewDelta with MinorUpgrade and PatchUpgrade not asking for equal
\* higher segments.
NewDeltaPerSegment(a, b) ==
    [MajorUpgrade |-> Compare(a, b) < 0 /\ Segments(a)[1] < Segments(b)[1],
     MinorUpgrade |-> Compare(a, b) < 0 /\ Segments(a)[2] < Segments(b)[2],
     PatchUpgrade |-> Compare(a, b) < 0 /\ Segments(a)[3] < Segments(b)[3],
     Equal |-> Compare(a, b) = 0,
     Downgrade |-> Compare(a, b) > 0,
     K0sUpgrade |-> FALSE,
     PrereleaseOnly |-> FALSE,
     BuildMetadataChange |-> a.meta # b.meta,
     Consecutive |-> FALSE]

\* The composite literal of NewDelta (lines 31-42), Consecutive unset.
DeltaFlags(a, b, cmp, majorEqual, minorEqual, patchEqual) ==
    [MajorUpgrade |-> cmp < 0 /\ Segments(a)[1] < Segments(b)[1],
     MinorUpgrade |-> cmp < 0 /\ majorEqual /\ Segments(a)[2] < Segments(b)[2],
     PatchUpgrade |-> cmp < 0 /\ majorEqual /\ minorEqual /\ Segments(a)[3] < Segments(b)[3],
     Equal |-> cmp = 0,
     Downgrade |-> cmp > 0,
     K0sUpgrade |-> majorEqual /\ minorEqual /\ patchEqual /\ a.pre = b.pre
                    /\ a.isK0s /\ b.isK0s /\ a.k0s < b.k0s,
     PrereleaseOnly |-> cmp < 0 /\ Patch(a) = Patch(b) /\ (a.pre # <<>> \/ b.pre # <<>>),
     BuildMetadataChange |-> a.meta # b.meta,
     Consecutive |-> FALSE]

\* The switch with only the increments tested, not the lower segments of b.
WithConsecutiveByIncrement(d, a, b) ==
    [d EXCEPT !.Consecutive =
        IF d.PatchUpgrade THEN Segments(b)[3] - Segments(a)[3] = 1
        ELSE IF d.MinorUpgrade THEN Segments(b)[2] - Segments(a)[2] = 1
        ELSE IF d.MajorUpgrade THEN Segments(b)[1] - Segments(a)[1] = 1
        ELSE IF d.K0sUpgrade THEN b.k0s - a.k0s = 1
        ELSE FALSE]

\* The switch of NewDelta (lines 44-53).
WithConsecutive(d, a, b) ==
    [d EXCEPT !.Consecutive =
        IF d.PatchUpgrade THEN Segments(b)[3] - Segments(a)[3] = 1
        ELSE IF d.MinorUpgrade THEN Segments(b)[2] - Segments(a)[2] = 1 /\ Segments(b)[3] = 0
        ELSE IF d.MajorUpgrade
        THEN Segments(b)[1] - Segments(a)[1] = 1 /\ Segments(b)[2] = 0 /\ Segments(b)[3] = 0
        ELSE IF d.K0sUpgrade THEN b.k0s - a.k0s = 1
        ELSE FALSE]

NewDelta(a, b) ==
    WithConsecutive(DeltaFlags(a, b, Compare(a, b),
                               segmentEqual(a, b, 0), segmentEqual(a, b, 1), segmentEqual(a, b, 2)),
                    a, b)

\* v.Major() and v.Minor(): the version cut to its first one and two segments.
Major(v) == <<Segments(v)[1]>>

Minor(v) == <<Segments(v)[1], Segments(v)[2]>>

\* Delta.String: the format chosen and the values it is filled with.
DeltaString(d, a, b) ==
    IF d.Downgrade THEN [format |-> "%s is a downgrade from %s", args |-> <<String(b), String(a)>>]
    ELSE IF d.MajorUpgrade
    THEN [format |-> "a %s major upgrade from %s to %s", args |-> <<d.Consecutive, Major(a), Major(b)>>]
    ELSE IF d.MinorUpgrade
    THEN [format |-> "a %s minor upgrade from %s to %s", args |-> <<d.Consecutive, Minor(a), Minor(b)>>]
    ELSE IF d.PrereleaseOnly
    THEN IF b.pre = <<>>
         THEN [format |-> "an upgrade from a %s pre-release to stable", args |-> <<Patch(a)>>]
         ELSE [format |-> "an upgrade between pre-release versions of %s", args |-> <<Patch(a)>>]
    ELSE IF d.PatchUpgrade
    THEN [format |-> "a %s patch upgrade to %s", args |-> <<d.Consecutive, String(b)>>]
    ELSE IF d.K0sUpgrade
    THEN [format |-> "a %s k0s upgrade to k0s build %d", args |-> <<d.Consecutive, b.k0s>>]
    ELSE IF d.BuildMetadataChange
    THEN [format |-> "build metadata changes from %q to %q", args |-> <<a.meta, b.meta>>]
    ELSE [format |-> "no change", args |-> <<>>]

\* delta := NewDelta(a, b); result := delta.String()
DeltaStep ==
    /\ pc = "parsed"
    /\ pc' = "delta"
    /\ \E d \in {NewDelta(out.a, out.b)} :
          out' = [a |-> out.a, b |-> out.b, d |-> d, result |-> DeltaString(d, out.a, out.b)]
    /\ UNCHANGED <<in1, in2, LoaderVars>>

NextOrder == ParseBoth \/ CompareStep \/ DeltaStep

SpecOrder == InitOrder /\ [][NextOrder]_vars

-----------------------------------------------------------------------------
(* Compiling a constraint and checking a version against it                *)

\* The operators with the prerelease gate.
StrictOps ==
    { <<"<">>,
      <<"<", "=">>,
      <<">">>,
      <<">", "=">> }

\* The operators the README and TestCheck call loose.
LooseOps ==
    { <<"<", "<">>,
      <<"<", "<", "=">>,
      <<">", ">">>,
      <<">", ">", "=">> }

\* Equality and inequality; no operator at all is the empty string.
OtherOps ==
    { <<"=">>,
      <<"=", "=">>,
      <<"!", "=">> }

\* References of the constraints.
RefInputs ==
    { <<"1", ".", "0", ".", "0">>,
      <<"1", ".", "0", ".", "0", "-", "r", "c", ".", "1">>,
      <<"1", ".", "0", ".", "0", "-", "a", "l", "p", "h", "a", ".", "2">>,
      <<"1", ".", "1", ".", "0", "-", "b", "e", "t", "a", ".", "1", "+", "k", "0", "s", ".", "1">>,
      <<"1", ".", "0">>,
      <<"1">>,
      <<"1", ".", "0", "-", "a">>,
      <<"1", "-", "r", "c", ".", "1">>,
      <<"a", "b", "c">> }

\* Candidates named by the tests and the README.
NamedCandidates ==
    { <<"0", ".", "9", ".", "9">>,
      <<"0", ".", "9", ".", "9", "-", "r", "c", ".", "1">>,
      <<"1", ".", "0", ".", "0", "-", "a", "l", "p", "h", "a", ".", "1">>,
      <<"1", ".", "0", ".", "0", "-", "a", "l", "p", "h", "a", ".", "2">>,
      <<"1", ".", "0", ".", "0", "-", "b", "e", "t", "a", ".", "6">>,
      <<"1", ".", "0", ".", "0", "-", "r", "c", ".", "1">>,
      <<"1", ".", "0", ".", "1", "-", "r", "c", ".", "1">>,
      <<"1", ".", "0", ".", "1">>,
      <<"1", ".", "1", ".", "0", "-", "a", "l", "p", "h", "a", ".", "1", "+", "k", "0", "s", ".", "2">>,
      <<"1", ".", "1", ".", "0", "+", "k", "0", "s", ".", "0">>,
      <<"2", ".", "0", ".", "1">> }

ConstraintInputs ==
    {op \o sp \o ref :
        op \in StrictOps \cup LooseOps \cup OtherOps \cup {<<>>}, sp \in {<<>>, <<" ">>}, ref \in RefInputs}

CandidateInputs ==
    NamedCandidates \cup {CoreString(core) \o pre : core \in Cores, pre \in Pres}

\* Comma-separated constraints: the combined ranges of the README, and
\* parts that are an inequality, a prerelease reference, not a version.
CombinedInputs ==
    { <<">", "=", " ", "1", ".", "0", ".", "0", ",", " ", "<", " ", "2", ".", "0", ".", "0">>,
      <<">", ">", " ", "1", ".", "0", ".", "0", ",", " ", "<", " ", "2", ".", "0", ".", "0">>,
      <<">", "=", " ", "1", ".", "0", ".", "0", "-", "r", "c", ".", "1", ",", "!", "=", " ", "1", ".", "0", ".", "0">>,
      <<"1", ".", "0", ".", "0", ",", " ", "a", "b", "c">> }

\* Constraints with spaces before the operator, between operator and
\* version, after the version and around the comma.
SpacedInputs ==
    { <<">", "=", " ", "1", ".", "0", ".", "0", " ">>,
      <<">", "=", " ", "1", ".", "0", ".", "0", " ", ",", " ", "<", " ", "2", ".", "0", ".", "0">>,
      <<" ", ">", "=", " ", "1", ".", "0", ".", "0">>,
      <<">", "=", " ", " ", "1", ".", "0", ".", "0">>,
      <<" ", " ", "1", ".", "0">>,
      <<" ", ">", "=", " ", "1", ".", "0", ".", "0", ",", " ", " ", "<", " ", "2", ".", "0", ".", "0">> }

\* Candidates of the combined ranges.
RangeCandidates ==
    { <<"1", ".", "1", ".", "0">>,
      <<"1", ".", "1", ".", "0", "-", "r", "c", ".", "1">>,
      <<"2", ".", "0", ".", "0">>,
      <<"2", ".", "0", ".", "0", "-", "r", "c", ".", "1">> }

InitConstraint ==
    /\ pc = "start"
    /\ in1 \in ConstraintInputs \cup CombinedInputs \cup SpacedInputs
    /\ in2 \in CandidateInputs \cup RangeCandidates
    /\ out = NoValue
    /\ LoaderIdle

\* c, err := NewConstraint(in1)
CompileStep ==
    /\ pc = "start"
    /\ pc' = "compiled"
    /\ out' = [c |-> NewConstraint(in1)]
    /\ UNCHANGED <<in1, in2, LoaderVars>>

\* ok := c.Check(MustParse(in2))
CheckStep ==
    /\ pc = "compiled"
    /\ ~out.c.err
    /\ pc' = "checked"
    /\ LET x == NewVersion(in2).v
       IN out' = [c |-> out.c, x |-> x, ok |-> Check(out.c, x)]
    /\ UNCHANGED <<in1, in2, LoaderVars>>

NextConstraint == CompileStep \/ CheckStep

SpecConstraint == InitConstraint /\ [][NextConstraint]_vars

-----------------------------------------------------------------------------
(* The loader: one caller of loadAll, the clock, the tag source            *)

\* Last minute of the clock.
MaxTime == 62

\* Tags the upstream repository may publish; the last is not a version.
TagUniverse ==
    { <<"v", "1">>,
      <<"v", "1", ".", "1">>,
      <<"v", "2", "+", "a", ".", "b", ".", "c">>,
      <<"x">> }

\* Cache files found at the start: none, an empty one, and one with a
\* comment, an unparsable line and a padded version line.
InitialCaches ==
    { NoFile,
      WrittenFile(<<>>, 1),
      WrittenFile(<< <<"#", " ", "c">>, <<"x">>, <<" ", "v", "1", " ">> >>, 1) }

\* github.Client.TagsSince seen from loadAll: a transport, status or decode
\* error; the tags of a 200 answer; or the empty list of a 304 answer, which
\* a server gives only to a request carrying If-Modified-Since.
TagsSince(published, since) ==
    {[err |-> TRUE, tags |-> <<>>], [err |-> FALSE, tags |-> SeqOf(published)]}
    \cup (IF since # ZeroTime THEN {[err |-> FALSE, tags |-> <<>>]} ELSE {})

\* cacheStale at time t, as computed from what the cache read returned, but
\* with the fresh window closed one minute early.
cacheStaleAtMaxAge(force, cacheErr, modTime, t) ==
    force \/ cacheErr = "miss" \/ modTime = ZeroTime \/ t - modTime >= CacheMaxAge

\* cacheStale (line 160) at time t.
cacheStale(force, cacheErr, modTime, t) ==
    force \/ cacheErr = "miss" \/ modTime = ZeroTime \/ t - modTime > CacheMaxAge

\* The fallback decision without the test of force.
fetchErrorReturnedUnforced(force, known) == DOMAIN known = {}

\* Whether a failed fetch is returned as an error (line 168) rather than
\* answered from the cache.
fetchErrorReturned(force, known) == force \/ DOMAIN known = {}

\* The file after a writeCache that returns an error: as it was (MkdirAll or
\* the open failed), or truncated by os.WriteFile's open and holding as much
\* of the data as was written before the write failed.
FailedWrite(f, data, t) ==
    {f} \cup {WrittenFile(SubSeq(data, 1, k), t) : k \in 0..(Len(data) - 1)}

\* The cache rewritten after every successful fetch.
cacheRewrittenAlways(updated, cacheErr, force) == TRUE

\* The condition of the write (line 190).
cacheRewritten(updated, cacheErr, force) == updated \/ cacheErr = "miss" \/ force

IdleCall ==
    [pc |-> "idle", force |-> FALSE, before |-> NoFile, at |-> 0,
     cacheErr |-> "none", modTime |-> ZeroTime, known |-> EmptyMap,
     contacted |-> FALSE, fetchErr |-> FALSE, wrote |-> FALSE,
     err |-> FALSE, versions |-> <<>>, usedFallback |-> FALSE, tags |-> <<>>]

InitLoad ==
    /\ pc = "load"
    /\ in1 = <<>>
    /\ in2 = <<>>
    /\ out = NoValue
    /\ cacheFile \in InitialCaches
    /\ now = 1
    /\ remote = {}
    /\ call = IdleCall
    /\ coll = NoValue
    /\ wr = NoValue
    /\ rd = NoValue

\* The record of a call that has read the cache.
StartedCall(force, r, known) ==
    [IdleCall EXCEPT !.force = force, !.before = cacheFile, !.at = now,
                     !.cacheErr = r.err, !.modTime = r.modTime, !.known = known]

\* loadAll up to the request to the tag source (lines 147-165).
LoadBegin(force) ==
    /\ call.pc \in {"idle", "done"}
    /\ \E ioErr \in BOOLEAN :
       \E r \in {newCollectionFromCache(cacheFile, ioErr)} :
       \E known \in {PutAll(EmptyMap, r.collection)} :
       \E started \in {StartedCall(force, r, known)} :
         IF r.err = "io"
         THEN call' = [started EXCEPT !.pc = "done", !.err = TRUE]
         ELSE IF ~cacheStale(force, r.err, r.modTime, now)
         THEN \E result \in collectionFromMap(known) :
                 call' = [started EXCEPT !.pc = "done", !.versions = result]
         ELSE call' = [started EXCEPT !.pc = "fetching", !.contacted = TRUE]
    /\ UNCHANGED <<pc, in1, in2, out, cacheFile, now, remote, coll, wr, rd>>

\* loadAll from the answer of the tag source to its return (lines 166-196).
LoadFinish ==
    /\ call.pc = "fetching"
    /\ \E resp \in TagsSince(remote, call.modTime) :
         IF resp.err
         THEN /\ IF fetchErrorReturned(call.force, call.known)
                 THEN call' = [call EXCEPT !.pc = "done", !.fetchErr = TRUE, !.err = TRUE]
                 ELSE \E result \in collectionFromMap(call.known) :
                        call' = [call EXCEPT !.pc = "done", !.fetchErr = TRUE,
                                             !.versions = result, !.usedFallback = TRUE]
              /\ UNCHANGED cacheFile
         ELSE \E merged \in {MergeTags(call.known, resp.tags)} :
              \E result \in collectionFromMap(merged) :
                IF cacheRewritten(DOMAIN merged # DOMAIN call.known, call.cacheErr, call.force)
                THEN \E data \in writeCacheData(result), writeErr \in BOOLEAN :
                       IF writeErr
                       THEN /\ call' = [call EXCEPT !.pc = "done", !.known = merged,
                                                    !.tags = resp.tags, !.err = TRUE]
                            /\ cacheFile' \in FailedWrite(cacheFile, data, now)
                       ELSE /\ call' = [call EXCEPT !.pc = "done", !.known = merged, !.tags = resp.tags,
                                                    !.wrote = TRUE, !.versions = result]
                            /\ cacheFile' = WrittenFile(data, now)
                ELSE /\ call' = [call EXCEPT !.pc = "done", !.known = merged, !.tags = resp.tags,
                                             !.versions = result]
                     /\ UNCHANGED cacheFile
    /\ UNCHANGED <<pc, in1, in2, out, now, remote, coll, wr, rd>>

\* Time passes.
Tick(d) ==
    /\ now + d <= MaxTime
    /\ now' = now + d
    /\ UNCHANGED <<pc, in1, in2, out, cacheFile, remote, call, coll, wr, rd>>

\* Upstream publishes a tag.
Publish(tag) ==
    /\ tag \notin remote
    /\ remote' = remote \cup {tag}
    /\ UNCHANGED <<pc, in1, in2, out, cacheFile, now, call, coll, wr, rd>>

NextLoad ==
    \/ \E force \in BOOLEAN : LoadBegin(force)
    \/ LoadFinish
    \/ \E d \in {CacheMaxAge, CacheMaxAge + 1} : Tick(d)
    \/ \E tag \in TagUniverse : Publish(tag)

SpecLoad == InitLoad /\ [][NextLoad]_vars

-----------------------------------------------------------------------------
(* The cache file under writeCache and a concurrent reader                 *)

\* Longest collection handed to writeCache.
MaxColl == 2

\* The versions of TestCollectionWriteCache, and one with dotted build
\* metadata.
CacheVersions ==
    { NewVersion(<<"v", "1", ".", "0", ".", "0", "+", "k", "0", "s", ".", "1">>).v,
      NewVersion(<<"v", "1", ".", "0", ".", "1", "+", "k", "0", "s", ".", "0">>).v,
      NewVersion(<<"1", "+", "a", ".", "b", ".", "c">>).v }

RECURSIVE SeqsUpTo(_, _)
SeqsUpTo(S, n) ==
    IF n = 0 THEN {<<>>}
    ELSE LET shorter == SeqsUpTo(S, n - 1)
         IN shorter \cup {Append(q, x) : q \in {t \in shorter : Len(t) = n - 1}, x \in S}

Collections == SeqsUpTo(CacheVersions, MaxColl)

\* The cache before the write: none, or the file of an earlier write.
OldCaches ==
    { NoFile,
      WrittenFile(<< <<"v", "1", ".", "0", ".", "1", "+", "k", "0", "s", ".", "0">>, <<"v", "1", ".", "0", ".", "0", "+", "k", "0", "s", ".", "1">> >>, 1) }

InitCache ==
    /\ pc = "cache"
    /\ in1 = <<>>
    /\ in2 = <<>>
    /\ out = NoValue
    /\ cacheFile \in OldCaches
    /\ now = 2
    /\ remote = NoValue
    /\ call = NoValue
    /\ coll \in Collections
    /\ wr = [pc |-> "start", data |-> <<>>, written |-> 0, old |-> cacheFile]
    /\ rd = NoValue

\* writeCache up to os.WriteFile's open of the file with O_CREATE|O_TRUNC:
\* the contents are built, the file exists and is empty.
WriteOpen ==
    /\ wr.pc = "start"
    /\ \E data \in writeCacheData(coll) :
         wr' = [wr EXCEPT !.pc = "opened", !.data = data]
    /\ cacheFile' = WrittenFile(<<>>, now)
    /\ UNCHANGED <<pc, in1, in2, out, now, remote, call, coll, rd>>

\* os.WriteFile's write: some more of the contents reach the file.
WriteData ==
    /\ wr.pc = "opened"
    /\ \E k \in (wr.written + 1)..Len(wr.data) :
         /\ wr' = [wr EXCEPT !.written = k]
         /\ cacheFile' = WrittenFile(SubSeq(wr.data, 1, k), now)
    /\ UNCHANGED <<pc, in1, in2, out, now, remote, call, coll, rd>>

\* os.WriteFile's close after the last write; writeCache returns nil.
WriteClose ==
    /\ wr.pc = "opened"
    /\ wr.written = Len(wr.data)
    /\ wr' = [wr EXCEPT !.pc = "closed"]
    /\ UNCHANGED <<pc, in1, in2, out, cacheFile, now, remote, call, coll, rd>>

\* os.WriteFile's write fails; writeCache returns the error and the file
\* stays as far as it was written.
WriteFail ==
    /\ wr.pc = "opened"
    /\ wr.written < Len(wr.data)
    /\ wr' = [wr EXCEPT !.pc = "failed"]
    /\ UNCHANGED <<pc, in1, in2, out, cacheFile, now, remote, call, coll, rd>>

\* Another reader calls newCollectionFromCache.
ReadCache ==
    /\ rd' = [during |-> wr.pc, file |-> cacheFile,
              result |-> newCollectionFromCache(cacheFile, FALSE)]
    /\ UNCHANGED <<pc, in1, in2, out, cacheFile, now, remote, call, coll, wr>>

NextCache == WriteOpen \/ WriteData \/ WriteClose \/ WriteFail \/ ReadCache

SpecCache == InitCache /\ [][NextCache]_vars

-----------------------------------------------------------------------------
(* UpgradePath                                                             *)

minorFromVersion(v) == [major |-> Segments(v)[1], minor |-> Segments(v)[2]]

compareMinor(a, b) ==
    IF a.major < b.major THEN -1
    ELSE IF a.major > b.major THEN 1
    ELSE IF a.minor < b.minor THEN -1
    ELSE IF a.minor > b.minor THEN 1
    ELSE 0

\* The loop body without its skip of prereleases.
NoteCandidateWithPre(maps, candidate, key, minor) ==
    [versionsByString |-> Put(maps.versionsByString, key, candidate),
     latestByMinor |->
        IF minor \notin DOMAIN maps.latestByMinor
           \/ LessThan(maps.latestByMinor[minor], candidate)
        THEN Put(maps.latestByMinor, minor, candidate)
        ELSE maps.latestByMinor]

\* The body of the loop over the catalog (lines 128-142) for one candidate,
\* with its String and its minor: versionsByString always takes it,
\* latestByMinor takes it when it is stable and greater than the entry.
NoteCandidate(maps, candidate, key, minor) ==
    [versionsByString |-> Put(maps.versionsByString, key, candidate),
     latestByMinor |->
        IF IsPrerelease(candidate) THEN maps.latestByMinor
        ELSE IF minor \notin DOMAIN maps.latestByMinor
                \/ LessThan(maps.latestByMinor[minor], candidate)
        THEN Put(maps.latestByMinor, minor, candidate)
        ELSE maps.latestByMinor]

RECURSIVE IndexCatalog(_, _, _)
\* The loop over the catalog from its i-th element on.
IndexCatalog(all, i, maps) ==
    IF i > Len(all) THEN maps
    ELSE IndexCatalog(all, i + 1,
                      NoteCandidate(maps, all[i], String(all[i]), minorFromVersion(all[i])))

RECURSIVE SortedKeys(_)
\* sort.Slice(keys, compareMinor): the keys are distinct.
SortedKeys(S) ==
    IF S = {} THEN <<>>
    ELSE LET least == CHOOSE k \in S : \A j \in S : compareMinor(k, j) <= 0
         IN <<least>> \o SortedKeys(S \ {least})

\* The loop body without its two skips of a candidate above the target.
VisitMinorPastTarget(st, key, candidate, startMinor, targetMinor, target) ==
    IF st.done THEN st
    ELSE IF compareMinor(key, startMinor) < 0 THEN st
    ELSE IF compareMinor(key, targetMinor) > 0 THEN [st EXCEPT !.done = TRUE]
    ELSE IF ~GreaterThan(candidate, st.current) THEN st
    ELSE [current |-> candidate, path |-> Append(st.path, candidate), done |-> FALSE]

\* The body of the loop over the sorted minors (lines 159-186) for one key
\* and its latest stable version; done is set by the break.
VisitMinor(st, key, candidate, startMinor, targetMinor, target) ==
    IF st.done THEN st
    ELSE IF compareMinor(key, startMinor) < 0 THEN st
    ELSE IF compareMinor(key, targetMinor) > 0 THEN [st EXCEPT !.done = TRUE]
    ELSE IF IsPrerelease(target) /\ compareMinor(key, targetMinor) = 0 /\ GreaterThan(candidate, target)
    THEN st
    ELSE IF ~IsPrerelease(target) /\ GreaterThan(candidate, target) THEN st
    ELSE IF ~GreaterThan(candidate, st.current) THEN st
    ELSE [current |-> candidate, path |-> Append(st.path, candidate), done |-> FALSE]

RECURSIVE WalkMinors(_, _, _, _, _, _)
WalkMinors(keys, i, st, latestByMinor, v, target) ==
    IF i > Len(keys) THEN st
    ELSE WalkMinors(keys, i + 1,
                    VisitMinor(st, keys[i], latestByMinor[keys[i]],
                               minorFromVersion(v), minorFromVersion(target), target),
                    latestByMinor, v, target)

\* versionsByString[targetString], or target itself (lines 188-192).
TargetVersion(versionsByString, target, targetString) ==
    IF targetString \in DOMAIN versionsByString THEN versionsByString[targetString] ELSE target

\* The path with the target appended where lines 194-206 append it.
AppendTarget(st, targetVersion, target, targetString) ==
    IF IsPrerelease(target)
    THEN IF LessThan(st.current, targetVersion) THEN Append(st.path, targetVersion)
         ELSE IF Len(st.path) = 0 \/ String(st.path[Len(st.path)]) # targetString
         THEN Append(st.path, targetVersion)
         ELSE st.path
    ELSE IF (Len(st.path) = 0 \/ String(st.path[Len(st.path)]) # targetString)
            /\ GreaterThan(targetVersion, st.current)
         THEN Append(st.path, targetVersion)
         ELSE st.path

RECURSIVE Dedupe(_, _, _, _, _)
\* The last loop (lines 208-223): elements not greater than v and repeated
\* Strings are dropped.
Dedupe(path, i, seen, deduped, v) ==
    IF i > Len(path) THEN deduped
    ELSE IF ~GreaterThan(path[i], v) \/ String(path[i]) \in seen
    THEN Dedupe(path, i + 1, seen, deduped, v)
    ELSE Dedupe(path, i + 1, seen \cup {String(path[i])}, Append(deduped, path[i]), v)

\* UpgradePath after the catalog is indexed.
PathThrough(maps, v, target) ==
    Dedupe(AppendTarget(WalkMinors(SortedKeys(DOMAIN maps.latestByMinor), 1,
                                   [current |-> v, path |-> <<>>, done |-> FALSE],
                                   maps.latestByMinor, v, target),
                        TargetVersion(maps.versionsByString, target, String(target)),
                        target, String(target)),
           1, {}, <<>>, v)

\* v.UpgradePath(target) from line 126 on, with the catalog All returned.
UpgradePath(v, target, all) ==
    PathThrough(IndexCatalog(all, 1, [versionsByString |-> EmptyMap, latestByMinor |-> EmptyMap]),
                v, target)

\* The first two ifs and the third (lines 111-119): the call is refused
\* before the catalog is asked for.
UpgradeRefusedNilOnly(v, target) == v = Nil \/ target = Nil

UpgradeRefused(v, target) ==
    \/ v = Nil
    \/ target = Nil
    \/ LessThan(target, v)

-----------------------------------------------------------------------------
(* Upgrade paths: v.UpgradePath(target) over the catalog All would return  *)

MaxCatalog == 3

\* Tags in the manner of the tag server of the upgrade tests: two patches
\* of one minor, prereleases, two k0s builds of one release, and a tag that
\* differs from another by its metadata only.
UpgradeInputs ==
    { <<"v", "1", ".", "0", ".", "0">>,
      <<"v", "1", ".", "0", ".", "1">>,
      <<"v", "1", ".", "1", ".", "0", "-", "r", "c", ".", "1">>,
      <<"v", "1", ".", "1", ".", "0">>,
      <<"v", "1", ".", "1", ".", "0", "+", "z">>,
      <<"v", "1", ".", "1", ".", "1", "+", "k", "0", "s", ".", "0">>,
      <<"v", "1", ".", "1", ".", "1", "+", "k", "0", "s", ".", "1">>,
      <<"v", "1", ".", "2", ".", "0", "-", "r", "c", ".", "1">>,
      <<"v", "1", ".", "2", ".", "0">> }

UpgradeVersions == {NewVersion(s).v : s \in UpgradeInputs}

\* What All returns without an error: collectionFromMap of a map keyed by
\* String, so no two elements render alike and the elements are sorted.
Catalogs ==
    UNION {SortOutcomes(q) :
             q \in {t \in SeqsUpTo(UpgradeVersions, MaxCatalog) :
                      \A i, j \in 1..Len(t) : i < j => Compare(t[i], t[j]) <= 0 /\ String(t[i]) # String(t[j])}}

InitUpgrade ==
    /\ pc = "start"
    /\ in1 \in UpgradeInputs
    /\ in2 \in UpgradeInputs
    /\ out = NoValue
    /\ cacheFile = NoValue
    /\ now = 0
    /\ remote = NoValue
    /\ call = NoValue
    /\ coll \in Catalogs
    /\ wr = NoValue
    /\ rd = NoValue

\* UpgradePath up to line 119, for the receiver v and the target.
UpgradeEnter(v, target) ==
    /\ pc = "start"
    /\ IF UpgradeRefused(v, target)
       THEN /\ pc' = "done"
            /\ out' = [v |-> v, target |-> target, path |-> Nil, err |-> TRUE, loaded |-> FALSE]
       ELSE /\ pc' = "loading"
            /\ out' = [v |-> v, target |-> target, path |-> Nil, err |-> FALSE, loaded |-> FALSE]
    /\ UNCHANGED <<in1, in2, LoaderVars>>

\* current := mustVersion(in1); target := mustVersion(in2); current.UpgradePath(target)
UpgradeCall == \E v \in {NewVersion(in1).v}, target \in {NewVersion(in2).v} : UpgradeEnter(v, target)

\* All fails (lines 121-124): the error is returned.
UpgradeLoadFails ==
    /\ pc = "loading"
    /\ pc' = "done"
    /\ out' = [out EXCEPT !.err = TRUE, !.loaded = TRUE]
    /\ UNCHANGED <<in1, in2, LoaderVars>>

\* All returns the catalog and the rest of UpgradePath runs (lines 121-225).
UpgradeLoaded ==
    /\ pc = "loading"
    /\ pc' = "done"
    /\ out' = [out EXCEPT !.path = UpgradePath(out.v, out.target, coll), !.loaded = TRUE]
    /\ UNCHANGED <<in1, in2, LoaderVars>>

NextUpgrade == UpgradeCall \/ UpgradeLoadFails \/ UpgradeLoaded

SpecUpgrade == InitUpgrade /\ [][NextUpgrade]_vars

-----------------------------------------------------------------------------
(* Latest: LatestByPrereleaseContext over the outcome of loadAll and the   *)
(* answer of the docs endpoint                                             *)

\* selectLatest without its test of allowpre.
selectLatestAny(collection, allowpre, i) ==
    IF i < 1 THEN Nil ELSE collection[i]

RECURSIVE selectLatest(_, _, _)
\* selectLatest(collection, allowpre), scanning down from index i.
selectLatest(collection, allowpre, i) ==
    IF i < 1 THEN Nil
    ELSE IF ~allowpre /\ IsPrerelease(collection[i]) THEN selectLatest(collection, allowpre, i - 1)
    ELSE collection[i]

\* What the docs endpoint can answer: no usable response, or a text.
DocsTexts == UpgradeInputs \cup { <<"x">>, <<>> }

DocsAnswers == {[failed |-> TRUE, text |-> <<>>]} \cup {[failed |-> FALSE, text |-> t] : t \in DocsTexts}

\* fetchLatestFromDocs: the error of httpGet, or NewVersion of the text.
fetchLatestFromDocs(answer) ==
    IF answer.failed THEN ParseError ELSE NewVersion(answer.text)

\* What loadAll(ctx, client, false) can return: an error; a collection from
\* cache and tags; or the cached collection, not empty, as the fallback.
LoadOutcomes ==
    {[failed |-> TRUE, versions |-> <<>>, usedFallback |-> FALSE]}
    \cup {[failed |-> FALSE, versions |-> c, usedFallback |-> FALSE] : c \in Catalogs}
    \cup {[failed |-> FALSE, versions |-> c, usedFallback |-> TRUE] : c \in Catalogs \ {<<>>}}

InitLatest ==
    /\ pc = "start"
    /\ in1 \in BOOLEAN
    /\ in2 = NoValue
    /\ out = NoValue
    /\ cacheFile = NoValue
    /\ now = 0
    /\ remote \in DocsAnswers
    /\ call \in LoadOutcomes
    /\ coll = NoValue
    /\ wr = NoValue
    /\ rd = NoValue

\* Lines 31-45 with the candidate selectLatest gave (Nil after an error).
LatestAfterLoad(candidate) ==
    /\ IF ~call.failed /\ candidate # Nil /\ ~call.usedFallback
       THEN /\ pc' = "done"
            /\ out' = [version |-> candidate, err |-> "", candidate |-> candidate, docs |-> FALSE]
       ELSE /\ pc' = "docs"
            /\ out' = [version |-> Nil, err |-> "", candidate |-> candidate, docs |-> FALSE]
    /\ UNCHANGED <<in1, in2, LoaderVars>>

LatestLoad ==
    /\ pc = "start"
    /\ \E candidate \in {IF call.failed THEN Nil
                         ELSE selectLatest(call.versions, in1, Len(call.versions))} :
          LatestAfterLoad(candidate)

\* Lines 47-66 with the result of fetchLatestFromDocs.
LatestAfterDocs(fallback) ==
    /\ pc' = "done"
    /\ out' = IF ~fallback.err
              THEN IF out.candidate = Nil \/ GreaterThan(fallback.v, out.candidate)
                   THEN [out EXCEPT !.version = fallback.v, !.docs = TRUE]
                   ELSE [out EXCEPT !.version = out.candidate, !.docs = TRUE]
              ELSE IF out.candidate # Nil
              THEN [out EXCEPT !.version = out.candidate, !.docs = TRUE]
              ELSE IF call.failed
              THEN [out EXCEPT !.err = "list versions", !.docs = TRUE]
              ELSE [out EXCEPT !.err = "docs", !.docs = TRUE]
    /\ UNCHANGED <<in1, in2, LoaderVars>>

LatestDocs ==
    /\ pc = "docs"
    /\ \E fallback \in {fetchLatestFromDocs(remote)} : LatestAfterDocs(fallback)

NextLatest == LatestLoad \/ LatestDocs

SpecLatest == InitLatest /\ [][NextLatest]_vars

-----------------------------------------------------------------------------
(* The tag source client: Client.TagsSince, one page request per step      *)

MaxPages == 3

\* strings.Contains for a substring.
ContainsString(s, sub) ==
    \E i \in 0..(Len(s) - Len(sub)) : SubSeq(s, i + 1, i + Len(sub)) = sub

RelNext == <<"r", "e", "l", "=", "\"", "n", "e", "x", "t", "\"">>

\* hasNextPage taking any link for a next link.
hasNextPageAny(linkHeader) == linkHeader # <<>>

\* hasNextPage(linkHeader)
hasNextPage(linkHeader) ==
    \E i \in 1..Len(Split(linkHeader, ",")) :
        /\ TrimSpace(Split(linkHeader, ",")[i]) # <<>>
        /\ ContainsString(TrimSpace(Split(linkHeader, ",")[i]), RelNext)

\* Link headers a server sends: none, a next link (alone, after a prev
\* link) and links that are not next links.
LinkHeaders ==
    { <<>>,
      <<"<", "u", ">", ";", " ", "r", "e", "l", "=", "\"", "n", "e", "x", "t", "\"">>,
      <<"<", "u", ">", ";", " ", "r", "e", "l", "=", "\"", "p", "r", "e", "v", "\"", ",", " ", "<", "u", ">", ";", " ", "r", "e", "l", "=", "\"", "n", "e", "x", "t", "\"">>,
      <<"<", "u", ">", ";", " ", "r", "e", "l", "=", "\"", "p", "r", "e", "v", "\"", ",", " ", "<", "u", ">", ";", " ", "r", "e", "l", "=", "\"", "l", "a", "s", "t", "\"">> }

\* The name arrays of a 200 answer.
Payloads == { <<>>, <<"a">>, <<"b">>, <<"a", "b">> }

\* What the server can answer to the request for a page: no answer
\* (transport error), 304 (only to a request with If-Modified-Since), another
\* status, a 200 whose body does not decode, or a 200 with names and a Link
\* header; page MaxPages is the last one the server has.
PageAnswers(page, sinceHeader) ==
    {[kind |-> k, names |-> <<>>, link |-> <<>>] : k \in {"transport", "500", "undecodable"}}
    \cup (IF sinceHeader THEN {[kind |-> "304", names |-> <<>>, link |-> <<>>]} ELSE {})
    \cup {[kind |-> "200", names |-> p, link |-> l] :
            p \in Payloads, l \in {h \in LinkHeaders : page < MaxPages \/ ~hasNextPage(h)}}

\* The loop body of TagsSince after the answer to the request for c.page.
AfterAnswer(c, resp) ==
    IF resp.kind \in {"transport", "500", "undecodable"}
    THEN [c EXCEPT !.pc = "done", !.err = TRUE, !.tags = <<>>, !.log = Append(c.log, resp)]
    ELSE IF resp.kind = "304"
    THEN [c EXCEPT !.pc = "done", !.log = Append(c.log, resp)]
    ELSE IF Len(resp.names) = 0
    THEN [c EXCEPT !.pc = "done", !.log = Append(c.log, resp)]
    ELSE IF ~hasNextPage(resp.link)
    THEN [c EXCEPT !.pc = "done", !.tags = c.tags \o resp.names, !.log = Append(c.log, resp)]
    ELSE [c EXCEPT !.page = c.page + 1, !.tags = c.tags \o resp.names, !.log = Append(c.log, resp)]

\* A client (nil, without http client, or usable) and a since time.
InitTags ==
    /\ pc = "start"
    /\ in1 \in {"nil", "no http client", "client"}
    /\ in2 \in {ZeroTime, 1}
    /\ out = NoValue
    /\ cacheFile = NoValue
    /\ now = 0
    /\ remote = NoValue
    /\ call = NoValue
    /\ coll = NoValue
    /\ wr = NoValue
    /\ rd = NoValue

\* TagsSince up to the loop: the nil checks and sinceHeader.
TagsSinceEnter ==
    /\ pc = "start"
    /\ pc' = "called"
    /\ call' = IF in1 # "client"
               THEN [pc |-> "done", page |-> 1, sinceHeader |-> FALSE,
                     tags |-> <<>>, err |-> TRUE, log |-> <<>>]
               ELSE [pc |-> "paging", page |-> 1, sinceHeader |-> in2 # ZeroTime,
                     tags |-> <<>>, err |-> FALSE, log |-> <<>>]
    /\ UNCHANGED <<in1, in2, out, cacheFile, now, remote, coll, wr, rd>>

\* One iteration of the loop: the request for call.page and its answer.
TagsSincePage ==
    /\ pc = "called"
    /\ call.pc = "paging"
    /\ \E resp \in PageAnswers(call.page, call.sinceHeader) : call' = AfterAnswer(call, resp)
    /\ UNCHANGED <<pc, in1, in2, out, cacheFile, now, remote, coll, wr, rd>>

NextTags == TagsSinceEnter \/ TagsSincePage

SpecTags == InitTags /\ [][NextTags]_vars

-----------------------------------------------------------------------------
(* The shared HTTP clients: defaultHTTPClient / SetDefaultHTTPClient and   *)
(* docsHTTPClient / SetDocsHTTPClient, called by concurrent goroutines     *)

MaxProcs == 2
MaxOps == 4

Procs == 1..MaxProcs

\* Clients a caller hands to the setter, and the one newConfiguredHTTPClient
\* returns on its k-th call.
CallerClients == {[made |-> "caller", id |-> 1], [made |-> "caller", id |-> 2]}

newConfiguredHTTPClient(k) == [made |-> "newConfiguredHTTPClient", id |-> k]

\* A goroutine outside the two functions.
IdleProc == [pc |-> "idle", client |-> Nil, arg |-> Nil, start |-> 0, returned |-> <<>>]

\* in1 names the pair of functions exercised (they share no state); client
\* is defaultClient or docsClient, mu its RWMutex.
InitClient ==
    /\ pc = "run"
    /\ in1 \in {"defaultHTTPClient", "docsHTTPClient"}
    /\ in2 = NoValue
    /\ out = NoValue
    /\ cacheFile = NoValue
    /\ now = 0
    /\ remote = NoValue
    /\ call = [client |-> Nil, mu |-> [readers |-> {}, writer |-> 0],
               procs |-> [p \in Procs |-> IdleProc],
               created |-> 0, sets |-> <<>>, ops |-> 0]
    /\ coll = NoValue
    /\ wr = NoValue
    /\ rd = NoValue

ClientIdle == <<pc, in1, in2, out, cacheFile, now, remote, coll, wr, rd>>

\* The getter goes straight to the write lock, skipping the read of the
\* shared client and the test under the lock.
GetterAlwaysCreates(c, p) ==
    [c EXCEPT !.client = newConfiguredHTTPClient(c.created + 1),
              !.created = c.created + 1,
              !.procs[p].pc = "unlock"]

\* if defaultClient == nil { defaultClient = newConfiguredHTTPClient() }
GetterCreates(c, p) ==
    IF c.client = Nil
    THEN [c EXCEPT !.client = newConfiguredHTTPClient(c.created + 1),
                   !.created = c.created + 1,
                   !.procs[p].pc = "unlock"]
    ELSE [c EXCEPT !.procs[p].pc = "unlock"]

\* The call of p returns client.
Returned(proc, client, epoch) ==
    [proc EXCEPT !.pc = "idle", !.client = Nil,
                 !.returned = Append(proc.returned, [start |-> proc.start, end |-> epoch, client |-> client])]

\* defaultClientMu.RLock()
GetRLock(p) ==
    /\ call.procs[p].pc = "idle"
    /\ call.ops < MaxOps
    /\ call.mu.writer = 0
    /\ call' = [call EXCEPT !.mu.readers = call.mu.readers \cup {p},
                            !.procs[p].pc = "read",
                            !.ops = call.ops + 1,
                            !.procs[p].start = Len(call.sets)]
    /\ UNCHANGED ClientIdle

\* client := defaultClient
GetRead(p) ==
    /\ call.procs[p].pc = "read"
    /\ call' = [call EXCEPT !.procs[p].pc = "runlock", !.procs[p].client = call.client]
    /\ UNCHANGED ClientIdle

\* defaultClientMu.RUnlock(); if client != nil { return client }
GetRUnlock(p) ==
    /\ call.procs[p].pc = "runlock"
    /\ call' = IF call.procs[p].client # Nil
               THEN [call EXCEPT !.mu.readers = call.mu.readers \ {p},
                                 !.procs[p] = Returned(call.procs[p], call.procs[p].client, Len(call.sets))]
               ELSE [call EXCEPT !.mu.readers = call.mu.readers \ {p}, !.procs[p].pc = "lock"]
    /\ UNCHANGED ClientIdle

\* defaultClientMu.Lock()
GetLock(p) ==
    /\ call.procs[p].pc = "lock"
    /\ call.mu.writer = 0
    /\ call.mu.readers = {}
    /\ call' = [call EXCEPT !.mu.writer = p, !.procs[p].pc = "create"]
    /\ UNCHANGED ClientIdle

\* The test and the creation under the lock.
GetCreate(p) ==
    /\ call.procs[p].pc = "create"
    /\ call' = GetterCreates(call, p)
    /\ UNCHANGED ClientIdle

\* return defaultClient, with the deferred Unlock.
GetUnlock(p) ==
    /\ call.procs[p].pc = "unlock"
    /\ call' = [call EXCEPT !.mu.writer = 0,
                            !.procs[p] = Returned(call.procs[p], call.client, Len(call.sets))]
    /\ UNCHANGED ClientIdle

\* SetDefaultHTTPClient(client): defaultClientMu.Lock()
SetLock(p, client) ==
    /\ call.procs[p].pc = "idle"
    /\ call.ops < MaxOps
    /\ call.mu.writer = 0
    /\ call.mu.readers = {}
    /\ call' = [call EXCEPT !.mu.writer = p,
                            !.procs[p].pc = "assign",
                            !.ops = call.ops + 1,
                            !.procs[p].arg = client]
    /\ UNCHANGED ClientIdle

\* defaultClient = client
SetAssign(p) ==
    /\ call.procs[p].pc = "assign"
    /\ call' = [call EXCEPT !.client = call.procs[p].arg,
                            !.sets = Append(call.sets, call.procs[p].arg),
                            !.procs[p].pc = "setunlock"]
    /\ UNCHANGED ClientIdle

\* defaultClientMu.Unlock()
SetUnlock(p) ==
    /\ call.procs[p].pc = "setunlock"
    /\ call' = [call EXCEPT !.mu.writer = 0, !.procs[p].pc = "idle", !.procs[p].arg = Nil]
    /\ UNCHANGED ClientIdle

NextClient ==
    \E p \in Procs :
        \/ GetRLock(p)
        \/ GetRead(p)
        \/ GetRUnlock(p)
        \/ GetLock(p)
        \/ GetCreate(p)
        \/ GetUnlock(p)
        \/ \E client \in CallerClients \cup {Nil} : SetLock(p, client)
        \/ SetAssign(p)
        \/ SetUnlock(p)

SpecClient == InitClient /\ [][NextClient]_vars

-----------------------------------------------------------------------------
(* Properties of the precedence order                                      *)

SegOrZero(v, i) == IF i <= v.numSegments THEN v.segments[i] ELSE 0

SignInt(x, y) == IF x < y THEN -1 ELSE IF x > y THEN 1 ELSE 0

SignStr(s, t) == IF StrLess(s, t) THEN -1 ELSE IF StrLess(t, s) THEN 1 ELSE 0

SignBool(p, q) == IF ~p /\ q THEN -1 ELSE IF p /\ ~q THEN 1 ELSE 0

\* The component-wise signs of the precedence key of a against that of b:
\* major, minor, patch, stable above prerelease, prerelease bytes,
\* k0s-tagged above untagged, k0s number.
KeySigns(a, b) ==
    << SignInt(SegOrZero(a, 1), SegOrZero(b, 1)),
       SignInt(SegOrZero(a, 2), SegOrZero(b, 2)),
       SignInt(SegOrZero(a, 3), SegOrZero(b, 3)),
       SignBool(a.pre = <<>>, b.pre = <<>>),
       SignStr(a.pre, b.pre),
       SignBool(a.isK0s, b.isK0s),
       SignInt(a.k0s, b.k0s) >>

LexSign(signs) ==
    IF \A i \in 1..Len(signs) : signs[i] = 0 THEN 0
    ELSE signs[CHOOSE i \in 1..Len(signs) : signs[i] # 0 /\ \A j \in 1..(i - 1) : signs[j] = 0]

SameKey(a, b) ==
    /\ \A i \in 1..maxSegments : SegOrZero(a, i) = SegOrZero(b, i)
    /\ a.pre = b.pre
    /\ a.isK0s = b.isK0s
    /\ a.k0s = b.k0s

\* C5: Compare(a, b) is the sign of the lexicographic comparison of the
\* precedence keys, so a and b compare equal exactly when their segments
\* (missing ones counted as 0), pre, isK0s and k0s are equal, whatever their
\* meta and however many segments were written.
C5_CompareIsKeyOrder ==
    pc = "compared" =>
        /\ out.cmp = LexSign(KeySigns(out.a, out.b))
        /\ (out.cmp = 0) <=> SameKey(out.a, out.b)

\* 1 against 1.0.0+z: equal, with different segment counts and meta.
C5_Witness ==
    /\ pc = "compared"
    /\ out.cmp = 0
    /\ out.a.numSegments # out.b.numSegments
    /\ out.a.meta # out.b.meta

\* C6: Compare is antisymmetric, transitive and reflexive, exactly one of
\* LessThan, Equal, GreaterThan holds, and LessThanOrEqual and
\* GreaterThanOrEqual agree with the sign of Compare.
C6_TotalOrder ==
    pc = "compared" =>
        /\ out.cmp = -out.rev
        /\ out.self = 0
        /\ Cardinality({f \in {"lt", "eq", "gt"} : out[f]}) = 1
        /\ out.lt <=> out.cmp < 0
        /\ out.eq <=> out.cmp = 0
        /\ out.gt <=> out.cmp > 0
        /\ out.le <=> out.cmp <= 0
        /\ out.ge <=> out.cmp >= 0
        /\ \A c \in OrderVersions :
            (out.cmp <= 0 /\ Compare(out.b, c) <= 0) => Compare(out.a, c) <= 0

\* A strictly increasing chain a < b < c.
C6_Witness ==
    /\ pc = "compared"
    /\ out.cmp = -1
    /\ \E c \in OrderVersions : Compare(out.b, c) = -1 /\ Compare(out.a, c) = -1

-----------------------------------------------------------------------------
(* Properties of the parser                                                *)

K0sRcTag ==
    <<"v", "1", ".", "2", "6", ".", "0", "+", "k", "0", "s", ".", "0", "-", "r", "c", ".", "1">>

\* C7: rendering a parsed string, parsing the rendering and rendering again
\* gives the first rendering back, and the canonical string
\* v1.26.0+k0s.0-rc.1 renders unchanged.
C7_RenderParseRender ==
    /\ pc = "reparsed" => (~out.again.err /\ out.r2 = out.r)
    /\ (pc = "rendered" /\ in1 = K0sRcTag) => out.r = in1

\* DIGITS ('.' DIGITS){0,2}, every DIGITS within unsigned 32 bits.
CoreOK(t) ==
    LET parts == Split(t, ".")
    IN /\ Len(parts) <= 3
       /\ \A i \in 1..Len(parts) : ParseUint(parts[i]).ok

\* ('-' PRE)? with a non-empty PRE that holds no '+'.
PreOK(t) == t = <<>> \/ (t[1] = "-" /\ Len(t) >= 2 /\ \A k \in 2..Len(t) : t[k] # "+")

\* ('+' META)? with a non-empty META.
MetaOK(t) == t = <<>> \/ (t[1] = "+" /\ Len(t) >= 2)

GrammarOK(s0) ==
    LET s == IF Len(s0) > 0 /\ s0[1] = "v" THEN Tail(s0) ELSE s0
    IN /\ s # <<>>
       /\ \A i \in 1..Len(s) : AllowedChar(s[i])
       /\ \E i \in 1..Len(s) : \E j \in i..Len(s) :
            /\ CoreOK(SubSeq(s, 1, i))
            /\ PreOK(SubSeq(s, i + 1, j))
            /\ MetaOK(SubSeq(s, j + 1, Len(s)))

\* C8: NewVersion returns a Version exactly for the strings of the grammar
\* (PRE and META non-empty), and an error with a nil Version otherwise.
C8_AcceptsExactlyGrammar ==
    pc = "parsed" =>
        /\ ~out.parsed.err <=> GrammarOK(in1)
        /\ out.parsed.err => out.parsed.v = Nil

-----------------------------------------------------------------------------
(* Properties of the constraint evaluator                                  *)

LT_1_0_0 == <<"<", " ", "1", ".", "0", ".", "0">>

LT_1_0_0_rc_1 == <<"<", " ", "1", ".", "0", ".", "0", "-", "r", "c", ".", "1">>

V_0_9_9_rc_1 == <<"0", ".", "9", ".", "9", "-", "r", "c", ".", "1">>

V_1_0_0_alpha_1 == <<"1", ".", "0", ".", "0", "-", "a", "l", "p", "h", "a", ".", "1">>

NotAVersion == <<"a", "b", "c">>

\* What the comparison named f asks of sign = Compare(x, r).
Accords(f, sign) ==
    CASE f = "lt" -> sign < 0
      [] f = "lte" -> sign <= 0
      [] f = "gt" -> sign > 0
      [] f = "gte" -> sign >= 0

\* C9: for a segment with operator <, <=, > or >= and reference r, Check(x)
\* is true exactly when x compares accordingly to r and x is not a
\* prerelease or r is one; '< 1.0.0' rejects 0.9.9-rc.1 and '< 1.0.0-rc.1'
\* accepts 1.0.0-alpha.1.
C9_StrictOperators ==
    /\ (pc = "checked" /\ Len(out.c.segments) = 1
            /\ out.c.segments[1].f \in {"lt", "lte", "gt", "gte"}) =>
        LET r == out.c.segments[1].b
        IN out.ok <=> /\ Accords(out.c.segments[1].f, Compare(out.x, r))
                      /\ (out.x.pre = <<>> \/ r.pre # <<>>)
    /\ (pc = "checked" /\ in1 = LT_1_0_0 /\ in2 = V_0_9_9_rc_1) => ~out.ok
    /\ (pc = "checked" /\ in1 = LT_1_0_0_rc_1 /\ in2 = V_1_0_0_alpha_1) => out.ok

\* '< 1.0.0-rc.1' accepts the prerelease 1.0.0-alpha.1.
C9_Witness ==
    /\ pc = "checked"
    /\ in1 = LT_1_0_0_rc_1
    /\ in2 = V_1_0_0_alpha_1
    /\ out.c.segments[1].f = "lt"
    /\ out.x.pre # <<>>
    /\ out.ok

LooseInputs == {op \o sp \o ref : op \in LooseOps, sp \in {<<>>, <<" ">>}, ref \in RefInputs \ {NotAVersion}}

\* The comparison a loose operator stands for.
LooseFunc(op) ==
    CASE op = <<"<", "<">> -> "lt"
      [] op = <<"<", "<", "=">> -> "lte"
      [] op = <<">", ">">> -> "gt"
      [] op = <<">", ">", "=">> -> "gte"

\* C10: NewConstraint accepts <<, <<=, >> and >>=, and Check decides them by
\* Compare alone, without the prerelease gate: '<< 1.0.0' accepts
\* 1.0.0-alpha.1 and rejects 1.0.0, '>>= 1.0.0' accepts 1.0.1-rc.1 and
\* rejects 1.0.0-rc.1.
C10_LooseOperators ==
    /\ (pc = "compiled" /\ in1 \in LooseInputs) => ~out.c.err
    /\ (pc = "checked" /\ in1 \in LooseInputs) =>
        \E op \in LooseOps :
            /\ HasPrefix(in1, op)
            /\ (Len(op) = 3 \/ in1[3] # "=")
            /\ out.ok <=> Accords(LooseFunc(op), Compare(out.x, out.c.segments[1].b))

-----------------------------------------------------------------------------
(* Properties of the loader                                                *)

\* The versions a cache file holds, read line by line.
CachedVersions(f) == IF f.exists THEN Range(readCollection(f.lines)) ELSE {}

\* A returned collection holds exactly the versions of S, once each, in
\* ascending precedence.
ReturnsExactly(versions, S) ==
    /\ Range(versions) = S
    /\ Len(versions) = Cardinality(S)
    /\ \A i \in 1..Len(versions) : \A j \in i..Len(versions) : Compare(versions[i], versions[j]) <= 0

\* C1: when loadAll is on the stale path and the fetch from the tag source
\* fails, it returns the error and no collection if force is set or the cache
\* yielded no versions; otherwise it returns exactly the cached versions with
\* usedFallback set and no error, and the cache file keeps its contents and
\* its modification time.
C1_FetchFailure ==
    (call # NoValue /\ call.pc = "done" /\ call.fetchErr) =>
        IF call.force \/ CachedVersions(call.before) = {}
        THEN call.err /\ call.versions = <<>> /\ ~call.usedFallback
        ELSE /\ ~call.err
             /\ call.usedFallback
             /\ ReturnsExactly(call.versions, CachedVersions(call.before))
             /\ cacheFile = call.before

\* A cache older than CacheMaxAge answered an unforced call whose fetch failed.
C1_Witness ==
    /\ call # NoValue
    /\ call.pc = "done"
    /\ call.fetchErr
    /\ ~call.force
    /\ call.at - call.before.mtime > CacheMaxAge
    /\ call.usedFallback
    /\ call.versions # <<>>

\* The staleness conditions of a call, stated on the file it found.
StaleFor(c) ==
    \/ c.force
    \/ ~c.before.exists
    \/ CachedVersions(c.before) = {}
    \/ c.before.mtime = ZeroTime
    \/ c.at - c.before.mtime > CacheMaxAge

\* What a call does when none of the staleness conditions holds.
AnsweredFromCache(c) ==
    /\ c.pc = "done"
    /\ ~c.err
    /\ ~c.usedFallback
    /\ ~c.contacted
    /\ ~c.wrote
    /\ ReturnsExactly(c.versions, CachedVersions(c.before))
    /\ cacheFile = c.before

\* C2 as stated: loadAll contacts the tag source exactly when force is set,
\* the cache is missing or empty, its modification time is zero, or it is
\* older than CacheMaxAge; otherwise it returns the cached collection without
\* fallback, remote request or cache write.
C2_ContactsIffStale ==
    (call # NoValue /\ call.pc \in {"fetching", "done"}) =>
        /\ call.contacted <=> StaleFor(call)
        /\ ~StaleFor(call) => AnsweredFromCache(call)

\* C2, for calls whose read of the cache did not fail with an error other
\* than a miss: the tag source is contacted exactly when force is set, the
\* cache is missing or empty, its modification time is zero, or it is older
\* than CacheMaxAge; otherwise the cached collection is returned without
\* fallback, remote request or cache write.  (A call whose cache read fails
\* returns that error and contacts nothing.)
C2_ContactsIffStaleWhenReadable ==
    (call # NoValue /\ call.pc \in {"fetching", "done"}) =>
        IF call.cacheErr = "io"
        THEN call.pc = "done" /\ call.err /\ ~call.contacted /\ call.versions = <<>>
        ELSE /\ call.contacted <=> StaleFor(call)
             /\ ~StaleFor(call) => AnsweredFromCache(call)

\* An unforced call found a populated cache exactly CacheMaxAge old and
\* answered from it.
C2_Witness ==
    /\ call # NoValue
    /\ call.pc = "done"
    /\ ~call.force
    /\ call.cacheErr = "none"
    /\ call.at - call.before.mtime = CacheMaxAge
    /\ ~call.contacted
    /\ call.versions # <<>>

-----------------------------------------------------------------------------
(* Properties of the cache file                                            *)

\* What a file holds, without its modification time.
Contents(f) == [exists |-> f.exists, lines |-> f.lines]

\* The file before writeCache and the file writeCache is to leave.
WholeContents == {Contents(wr.old), [exists |-> TRUE, lines |-> wr.data]}

\* C3: the cache file is never partially written, and a reader running
\* alongside writeCache finds the complete previous contents or the complete
\* new contents, never an empty or truncated file.
C3_ReaderSeesWholeFile ==
    (wr # NoValue /\ wr.pc # "start") =>
        /\ Contents(cacheFile) \in WholeContents
        /\ rd # NoValue => Contents(rd.file) \in WholeContents

\* The canonical strings of the versions of a collection.
CanonicalStrings(c) == {String(c[i]) : i \in 1..Len(c)}

\* C4: after writeCache(C) the file holds one canonical string per distinct
\* version of C, newest first, and reading it back returns exactly those
\* versions: none lost, none added, none twice.
C4_CacheFidelity ==
    (rd # NoValue /\ rd.during = "closed") =>
        LET want == CanonicalStrings(coll)
            lines == rd.file.lines
            got == rd.result.collection
        IN /\ Range(lines) = want
           /\ Len(lines) = Cardinality(want)
           /\ \A i \in 1..Len(lines) : \A j \in i..Len(lines) :
                Compare(NewVersion(lines[i]).v, NewVersion(lines[j]).v) >= 0
           /\ CanonicalStrings(got) = want
           /\ Len(got) = Cardinality(want)

-----------------------------------------------------------------------------
(* Properties of !=, equality, padding, whitespace and commas              *)

\* The references that are versions.
VersionRefs == RefInputs \ {NotAVersion}

\* The version written after an operator of n bytes.
RefAfter(s, n) == NewVersion(TrimLeft(SubSeq(s, n + 1, Len(s)))).v

NeqInputs == {<<"!", "=">> \o sp \o ref : sp \in {<<>>, <<" ">>}, ref \in VersionRefs}

\* C11: a segment '!= r' compiles, and Check(x) is true exactly when
\* Compare(x, r) is not 0, whether or not x or r is a prerelease.
C11_NotEqualUngated ==
    /\ (pc = "compiled" /\ in1 \in NeqInputs) => ~out.c.err
    /\ (pc = "checked" /\ in1 \in NeqInputs) =>
          (out.ok <=> Compare(out.x, RefAfter(in1, 2)) # 0)

\* The equality constraints, by the length of their operator.
EqInputs(n) ==
    {op \o sp \o ref : op \in {o \in {<<>>, <<"=">>, <<"=", "=">>} : Len(o) = n},
                       sp \in {<<>>, <<" ">>}, ref \in VersionRefs}

\* C12: for '=', '==' and no operator the reference is stored as written, not
\* zero-padded, and only candidates with the same number of segments are
\* accepted: '= 1.0' rejects 1.0.0 and 1.
C12_EqualityKeepsSegments ==
    \A n \in 0..2 :
        (pc = "checked" /\ in1 \in EqInputs(n)) =>
            /\ Len(out.c.segments) = 1
            /\ out.c.segments[1].b = RefAfter(in1, n)
            /\ out.ok => /\ out.x.numSegments = RefAfter(in1, n).numSegments
                         /\ Compare(out.x, RefAfter(in1, n)) = 0

\* The numeric core of a version string and what follows it.
CoreOf(ref) == IF IndexAny(ref, {"-", "+"}) = -1 THEN ref ELSE Slice(ref, 0, IndexAny(ref, {"-", "+"}))

TailOf(ref) == IF IndexAny(ref, {"-", "+"}) = -1 THEN <<>> ELSE Slice(ref, IndexAny(ref, {"-", "+"}), Len(ref))

\* The reference padded with .0 to three segments, its tail unchanged.
ZeroPadded(ref) ==
    LET n == Len(Split(CoreOf(ref), "."))
    IN CoreOf(ref)
       \o (IF n < 2 THEN <<".", "0">> ELSE <<>>)
       \o (IF n < 3 THEN <<".", "0">> ELSE <<>>)
       \o TailOf(ref)

\* The inequality constraints, by the length of their operator.
InequalityInputs(n) ==
    {op \o sp \o ref : op \in {o \in StrictOps \cup {<<"!", "=">>} : Len(o) = n},
                       sp \in {<<>>, <<" ">>}, ref \in VersionRefs}

GE_1_rc_1 == <<">", "=", " ", "1", "-", "r", "c", ".", "1">>

GE_1_0_a == <<">", "=", " ", "1", ".", "0", "-", "a">>

\* C13: an inequality constraint on a reference of fewer than three segments
\* stores the reference zero-padded to three segments with its prerelease
\* tail unchanged: '>= 1-rc.1' stores 1.0.0-rc.1 and '>= 1.0-a' stores 1.0.0-a.
C13_PaddingKeepsPrerelease ==
    /\ \A n \in 1..2 :
        (pc = "compiled" /\ in1 \in InequalityInputs(n)) =>
            /\ ~out.c.err
            /\ Len(out.c.segments) = 1
            /\ out.c.segments[1].b = NewVersion(ZeroPadded(TrimLeft(SubSeq(in1, n + 1, Len(in1))))).v
    /\ (pc = "compiled" /\ in1 = GE_1_rc_1) =>
            /\ Segments(out.c.segments[1].b) = <<1, 0, 0>>
            /\ out.c.segments[1].b.pre = <<"r", "c", ".", "1">>
    /\ (pc = "compiled" /\ in1 = GE_1_0_a) =>
            String(out.c.segments[1].b) = <<"v", "1", ".", "0", ".", "0", "-", "a">>

\* A string without its spaces.
Unspaced(s) == SelectSeq(s, LAMBDA c : ~IsSpace(c))

\* C14: a constraint written with spaces before or after its operators,
\* versions and commas compiles whenever the same constraint without the
\* spaces does, and accepts exactly the same versions.
C14_WhitespaceTolerated ==
    /\ (pc = "compiled" /\ ~NewConstraint(Unspaced(in1)).err) => ~out.c.err
    /\ (pc = "checked" /\ ~NewConstraint(Unspaced(in1)).err) =>
            out.ok = Check(NewConstraint(Unspaced(in1)), out.x)

GE_1_0_0_LT_2_0_0 == <<">", "=", " ", "1", ".", "0", ".", "0", ",", " ", "<", " ", "2", ".", "0", ".", "0">>

GG_1_0_0_LT_2_0_0 == <<">", ">", " ", "1", ".", "0", ".", "0", ",", " ", "<", " ", "2", ".", "0", ".", "0">>

V_1_1_0_rc_1 == <<"1", ".", "1", ".", "0", "-", "r", "c", ".", "1">>

\* The parts of a comma-separated constraint, each compiled on its own.
PartsAccept(cs, x) ==
    \A i \in 1..Len(Split(cs, ",")) :
        /\ ~NewConstraint(Split(cs, ",")[i]).err
        /\ Check(NewConstraint(Split(cs, ",")[i]), x)

\* C15: a comma-separated constraint accepts a version exactly when each of
\* its segments, evaluated on its own, accepts it; '>= 1.0.0, < 2.0.0' and
\* '>> 1.0.0, < 2.0.0' are constraints, the first matches no prerelease and
\* the second rejects 1.1.0-rc.1.
C15_AllSegmentsMustAccept ==
    /\ pc = "checked" => (out.ok <=> PartsAccept(in1, out.x))
    /\ (pc = "compiled" /\ in1 \in {GE_1_0_0_LT_2_0_0, GG_1_0_0_LT_2_0_0}) => ~out.c.err
    /\ (pc = "checked" /\ in1 = GE_1_0_0_LT_2_0_0 /\ out.x.pre # <<>>) => ~out.ok
    /\ (pc = "checked" /\ in1 = GG_1_0_0_LT_2_0_0 /\ in2 = V_1_1_0_rc_1) => ~out.ok

-----------------------------------------------------------------------------
(* Properties of UpgradePath                                               *)

UpgradeReturned == pc = "done" /\ out.loaded /\ ~out.err

StrictlyIncreasing(path) == \A i \in 1..(Len(path) - 1) : Compare(path[i], path[i + 1]) < 0

Between(path, v, target) ==
    \A i \in 1..Len(path) : Compare(path[i], v) > 0 /\ Compare(path[i], target) <= 0

\* C16: for a target not less than the current version and every catalog,
\* the returned path is strictly increasing, each of its elements is greater
\* than the current version and not greater than the target, its last
\* element compares equal to the target when the target is greater than the
\* current version, and it is empty when the target equals the current one.
C16_PathShape ==
    UpgradeReturned /\ Compare(out.target, out.v) >= 0 =>
        /\ StrictlyIncreasing(out.path)
        /\ Between(out.path, out.v, out.target)
        /\ (Compare(out.target, out.v) > 0 =>
                Len(out.path) > 0 /\ Compare(out.path[Len(out.path)], out.target) = 0)
        /\ (Compare(out.target, out.v) = 0 => out.path = <<>>)

C16_Witness ==
    /\ UpgradeReturned
    /\ Len(out.path) = 3
    /\ Len(coll) = 3
    /\ \E i \in 1..Len(coll) : Compare(coll[i], out.target) > 0

C16_WitnessEqual ==
    UpgradeReturned /\ Compare(out.target, out.v) = 0 /\ out.target # out.v /\ Len(coll) > 0

\* C17: when the target is less than the current version UpgradePath returns
\* an error and no path, whatever the catalog, and it does so before the
\* catalog is loaded (no cache read, no request to the tag source).
C17_DowngradeRefused ==
    pc # "start" /\ LessThan(out.target, out.v) =>
        pc = "done" /\ out.err /\ out.path = Nil /\ ~out.loaded

C17_Witness ==
    /\ pc = "done"
    /\ LessThan(out.target, out.v)
    /\ out.err
    /\ ~out.loaded
    /\ Len(coll) = 3

-----------------------------------------------------------------------------
(* Properties of LatestByPrereleaseContext                                 *)

\* The catalog versions that qualify: all of them, or the stable ones.
Qualifying == {call.versions[i] : i \in {j \in 1..Len(call.versions) :
                                          in1 \/ ~IsPrerelease(call.versions[j])}}

Greatest(S) == {x \in S : \A y \in S : Compare(y, x) <= 0}

DocsVersion == fetchLatestFromDocs(remote)

\* C18: after a load that succeeded without the fallback and holds a
\* qualifying version the answer is a greatest qualifying catalog version
\* and the docs endpoint is not contacted; after a fallback load the answer
\* is the docs version when it is greater than the catalog candidate and
\* the candidate otherwise (tie, or docs failure); when the load and the
\* docs both fail the answer is the error of the load.
C18_LatestDecision ==
    pc = "done" =>
        /\ (~call.failed /\ ~call.usedFallback /\ Qualifying # {} =>
                /\ out.version \in Greatest(Qualifying)
                /\ out.err = ""
                /\ ~out.docs)
        /\ (~call.failed /\ call.usedFallback /\ Qualifying # {} =>
                /\ out.err = ""
                /\ out.docs
                /\ IF ~DocsVersion.err /\ \A x \in Qualifying : Compare(DocsVersion.v, x) > 0
                   THEN out.version = DocsVersion.v
                   ELSE out.version \in Greatest(Qualifying))
        /\ (call.failed /\ DocsVersion.err =>
                out.version = Nil /\ out.err = "list versions")

C18_Witness ==
    /\ pc = "done"
    /\ call.usedFallback
    /\ ~in1
    /\ Len(call.versions) = 3
    /\ IsPrerelease(call.versions[3])
    /\ ~DocsVersion.err
    /\ Compare(DocsVersion.v, out.candidate) = 0
    /\ out.version = out.candidate
    /\ out.version # DocsVersion.v

C18_WitnessDirect ==
    /\ pc = "done"
    /\ ~call.failed /\ ~call.usedFallback
    /\ ~in1
    /\ Len(call.versions) = 3
    /\ IsPrerelease(call.versions[3])
    /\ out.version = call.versions[2]
    /\ ~out.docs

C18_WitnessBothFail ==
    pc = "done" /\ call.failed /\ DocsVersion.err /\ ~remote.failed /\ out.err = "list versions"

-----------------------------------------------------------------------------
(* Properties of NewDelta                                                  *)

Count(flags) == Cardinality({i \in 1..Len(flags) : flags[i]})

\* The highest-order numeric segment (1 major, 2 minor, 3 patch) in which
\* b exceeds a; 0 if there is none.
FirstRaised(a, b) ==
    IF Segments(a)[1] < Segments(b)[1] THEN 1
    ELSE IF Segments(a)[2] < Segments(b)[2] THEN 2
    ELSE IF Segments(a)[3] < Segments(b)[3] THEN 3
    ELSE 0

\* C19: NewDelta(a, b) classifies the pair as exactly one of Equal,
\* Downgrade and upgrade (a < b); at most one of MajorUpgrade, MinorUpgrade
\* and PatchUpgrade is set, none unless a < b, and the one set is that of
\* the highest-order numeric segment in which b exceeds a.
C19_DeltaClassification ==
    pc = "delta" =>
        /\ Count(<<out.d.Equal, out.d.Downgrade, LessThan(out.a, out.b)>>) = 1
        /\ out.d.Equal = (Compare(out.a, out.b) = 0)
        /\ out.d.Downgrade = (Compare(out.a, out.b) > 0)
        /\ Count(<<out.d.MajorUpgrade, out.d.MinorUpgrade, out.d.PatchUpgrade>>) <= 1
        /\ (~LessThan(out.a, out.b) =>
                ~out.d.MajorUpgrade /\ ~out.d.MinorUpgrade /\ ~out.d.PatchUpgrade)
        /\ (LessThan(out.a, out.b) =>
                /\ out.d.MajorUpgrade = (FirstRaised(out.a, out.b) = 1)
                /\ out.d.MinorUpgrade = (FirstRaised(out.a, out.b) = 2)
                /\ out.d.PatchUpgrade = (FirstRaised(out.a, out.b) = 3))

\* A major upgrade with a greater minor in b, too.
C19_Witness ==
    /\ pc = "delta"
    /\ out.d.MajorUpgrade
    /\ Segments(out.a)[2] < Segments(out.b)[2]
    /\ Segments(out.a)[3] > Segments(out.b)[3]

C19_WitnessNoFlag ==
    pc = "delta" /\ LessThan(out.a, out.b) /\ FirstRaised(out.a, out.b) = 0

-----------------------------------------------------------------------------
(* Properties of a successful refresh                                      *)

\* The call went to the tag source and got an answer.
FetchSucceeded == call # NoValue /\ call.pc = "done" /\ call.contacted /\ ~call.fetchErr

\* The versions of the fetched tags that parse.
FetchedVersions(c) ==
    {NewVersion(c.tags[i]).v : i \in {j \in 1..Len(c.tags) : ~NewVersion(c.tags[j]).err}}

StringsOf(S) == {String(v) : v \in S}

\* versions is the union of cached and fetched, one version per canonical
\* string, in ascending precedence.
IsSortedUnion(versions, cached, fetched) ==
    /\ Range(versions) \subseteq cached \cup fetched
    /\ CanonicalStrings(versions) = StringsOf(cached) \cup StringsOf(fetched)
    /\ Len(versions) = Cardinality(CanonicalStrings(versions))
    /\ \A i \in 1..Len(versions) : \A j \in i..Len(versions) : Compare(versions[i], versions[j]) <= 0

\* The conditions under which the cache is to be rewritten.
WriteDue(c) ==
    \/ StringsOf(FetchedVersions(c)) \ StringsOf(CachedVersions(c.before)) # {}
    \/ ~c.before.exists
    \/ CachedVersions(c.before) = {}
    \/ c.force

\* The file is the one the call found, or the one it wrote.
FileAfter(c) ==
    IF c.wrote
    THEN /\ cacheFile.exists
         /\ Range(cacheFile.lines) = CanonicalStrings(c.versions)
         /\ Len(cacheFile.lines) = Len(c.versions)
    ELSE cacheFile = c.before

\* C20 as stated: when the fetch on the stale path succeeds, loadAll returns
\* the union, keyed by canonical string and sorted ascending, of the cached
\* versions and the fetched tags that parse, and rewrites the cache file if
\* and only if a new key was added, the cache was missing or empty, or force
\* was set.
C20_RefreshReturnsUnion ==
    FetchSucceeded =>
        /\ ~call.err
        /\ IsSortedUnion(call.versions, CachedVersions(call.before), FetchedVersions(call))
        /\ call.wrote <=> WriteDue(call)
        /\ FileAfter(call)

\* C20, for calls whose write of the cache, if one is due, does not fail:
\* loadAll returns the sorted union of the cached versions and the fetched
\* tags that parse, and rewrites the cache file if and only if a new key was
\* added, the cache was missing or empty, or force was set.  (A call whose
\* write fails returns that error and no versions.)
C20_RefreshReturnsUnionUnlessWriteFails ==
    FetchSucceeded =>
        IF call.err
        THEN WriteDue(call) /\ ~call.wrote /\ call.versions = <<>> /\ ~call.usedFallback
        ELSE /\ IsSortedUnion(call.versions, CachedVersions(call.before), FetchedVersions(call))
             /\ call.wrote <=> WriteDue(call)
             /\ FileAfter(call)

\* An unforced call on a populated, outdated cache fetched a known tag, a
\* new one and an unparsable one, and rewrote the file.
C20_Witness ==
    /\ FetchSucceeded
    /\ ~call.err
    /\ ~call.force
    /\ CachedVersions(call.before) # {}
    /\ StringsOf(FetchedVersions(call)) \cap StringsOf(CachedVersions(call.before)) # {}
    /\ StringsOf(FetchedVersions(call)) \ StringsOf(CachedVersions(call.before)) # {}
    /\ Cardinality(FetchedVersions(call)) < Len(call.tags)
    /\ call.wrote

\* An unforced call on a populated, outdated cache learnt nothing new and
\* left the file alone.
C20_WitnessNoWrite ==
    /\ FetchSucceeded
    /\ ~call.err
    /\ ~call.force
    /\ Len(call.tags) > 0
    /\ ~call.wrote

-----------------------------------------------------------------------------
(* Properties of the build metadata                                        *)

\* The build metadata of an input: what follows its first '+'.
MetaText(s) == Slice(s, Index(s, "+") + 1, Len(s))

\* Whether the part at position i opens a k0s.<N> pair.
OpensK0sPair(parts, i) == parts[i] = k0s /\ i < Len(parts) /\ ParseUint(parts[i + 1]).ok

RECURSIVE KeptParts(_, _)
\* The parts from position i on that belong to no k0s.<N> pair, in order.
KeptParts(parts, i) ==
    IF i > Len(parts) THEN <<>>
    ELSE IF OpensK0sPair(parts, i) THEN KeptParts(parts, i + 2)
    ELSE <<parts[i]>> \o KeptParts(parts, i + 1)

RECURSIVE PairNumbers(_, _)
\* The numbers N of the k0s.<N> pairs from position i on.
PairNumbers(parts, i) ==
    IF i > Len(parts) THEN {}
    ELSE IF OpensK0sPair(parts, i)
    THEN {ParseUint(parts[i + 1]).val} \cup PairNumbers(parts, i + 2)
    ELSE PairNumbers(parts, i + 1)

MetadataSplit(v, parts) ==
    /\ v.meta = Join(KeptParts(parts, 1), <<".">>)
    /\ v.isK0s = (PairNumbers(parts, 1) # {})
    /\ v.isK0s => v.k0s \in PairNumbers(parts, 1)

\* C21: NewVersion splits the build metadata on '.'; each part 'k0s' that is
\* followed by a part parsing as an unsigned 32-bit integer N sets isK0s and
\* k0s = N and is removed together with N; every other part (a leading one,
\* and 'k0s' with a follower that is not such an integer) is kept in order,
\* the kept parts joined with '.' forming meta.
C21_MetadataParts ==
    (pc = "parsed" /\ ~out.parsed.err /\ Index(in1, "+") >= 0) =>
        MetadataSplit(out.parsed.v, Split(MetaText(in1), "."))

-----------------------------------------------------------------------------
(* Properties of the intermediate steps of UpgradePath                     *)

\* The stable catalog versions with the (major, minor) key of v.
StableOfMinor(v) ==
    {coll[i] : i \in {j \in 1..Len(coll) :
                        ~IsPrerelease(coll[j]) /\ minorFromVersion(coll[j]) = minorFromVersion(v)}}

\* The positions of the path before its last element.
Intermediate(path) == 1..(Len(path) - 1)

\* C22: every element of the returned path other than the final target is a
\* stable version, the greatest stable catalog version of its (major, minor)
\* key, the only element of its key among them, and its key lies between the
\* keys of the current version and of the target, both included; no catalog
\* prerelease is an intermediate step.
C22_IntermediateSteps ==
    UpgradeReturned =>
        \A i \in Intermediate(out.path) :
            /\ ~IsPrerelease(out.path[i])
            /\ out.path[i] \in StableOfMinor(out.path[i])
            /\ \A x \in StableOfMinor(out.path[i]) : Compare(x, out.path[i]) <= 0
            /\ \A j \in Intermediate(out.path) :
                   j # i => minorFromVersion(out.path[j]) # minorFromVersion(out.path[i])
            /\ compareMinor(minorFromVersion(out.v), minorFromVersion(out.path[i])) <= 0
            /\ compareMinor(minorFromVersion(out.path[i]), minorFromVersion(out.target)) <= 0

\* A path with an intermediate step whose minor holds a smaller stable
\* version and a prerelease in the catalog, too.
C22_Witness ==
    /\ UpgradeReturned
    /\ Len(out.path) >= 2
    /\ Cardinality(StableOfMinor(out.path[1])) >= 2
    /\ \E i \in 1..Len(coll) :
          /\ IsPrerelease(coll[i])
          /\ Compare(coll[i], out.v) > 0
          /\ Compare(coll[i], out.target) < 0

-----------------------------------------------------------------------------
(* Properties of Delta.Consecutive                                         *)

\* The four cases in which a delta is consecutive.
ConsecutiveCase(d, a, b) ==
    \/ d.PatchUpgrade /\ Segments(b)[3] - Segments(a)[3] = 1
    \/ d.MinorUpgrade /\ Segments(b)[2] - Segments(a)[2] = 1 /\ Segments(b)[3] = 0
    \/ d.MajorUpgrade /\ Segments(b)[1] - Segments(a)[1] = 1
                      /\ Segments(b)[2] = 0 /\ Segments(b)[3] = 0
    \/ d.K0sUpgrade /\ b.k0s - a.k0s = 1

C23_WitnessK0sOfPrerelease ==
    pc = "delta" /\ out.d.PrereleaseOnly /\ out.d.K0sUpgrade /\ out.d.Consecutive

-----------------------------------------------------------------------------
(* Properties of the description of a delta                                *)

\* C30: for every pair with a < b NewDelta sets at least one of
\* MajorUpgrade, MinorUpgrade, PatchUpgrade, K0sUpgrade and PrereleaseOnly,
\* and Delta.String returns "no change" only when a and b compare equal and
\* have the same meta.
C30_UpgradeIsNamed ==
    pc = "delta" =>
        /\ (LessThan(out.a, out.b) =>
                \/ out.d.MajorUpgrade \/ out.d.MinorUpgrade \/ out.d.PatchUpgrade
                \/ out.d.K0sUpgrade \/ out.d.PrereleaseOnly)
        /\ (out.result.format = "no change" =>
                Compare(out.a, out.b) = 0 /\ out.a.meta = out.b.meta)

-----------------------------------------------------------------------------
(* Properties of TagsSince                                                 *)

TagsCalled == pc = "called" /\ in1 = "client"

\* C24: whenever the server answers 304 to a page request, pagination stops
\* at once and the call returns an empty tag list and no error.
C24_NotModifiedIsEmpty ==
    (TagsCalled /\ \E i \in 1..Len(call.log) : call.log[i].kind = "304") =>
        /\ call.pc = "done"
        /\ call.log[Len(call.log)].kind = "304"
        /\ ~call.err
        /\ call.tags = <<>>

\* The answer to page i let the loop go on to page i + 1.
LeadsOn(resp) == resp.kind = "200" /\ Len(resp.names) > 0 /\ ContainsString(resp.link, RelNext)

RECURSIVE NamesOf(_)
\* The names of the answers of a log, in order.
NamesOf(log) == IF log = <<>> THEN <<>> ELSE Head(log).names \o NamesOf(Tail(log))

\* C25: pages are requested in the order 1, 2, 3, ..., page n + 1 only after
\* page n came with status 200, a non-empty array and a Link header holding
\* rel="next"; the call ends at the first page without rel="next" or with an
\* empty array, and returns the names of all fetched pages in page order.
C25_Pagination ==
    TagsCalled =>
        /\ call.page = (IF call.pc = "paging" THEN Len(call.log) + 1 ELSE Len(call.log))
        /\ \A i \in 1..(Len(call.log) - 1) : LeadsOn(call.log[i])
        /\ (call.pc = "paging" => \A i \in 1..Len(call.log) : LeadsOn(call.log[i]))
        /\ (Len(call.log) > 0 /\ ~LeadsOn(call.log[Len(call.log)]) => call.pc = "done")
        /\ (call.pc = "done" /\ ~call.err => call.tags = NamesOf(call.log))

\* Three pages were fetched, the last without a next link.
C25_Witness ==
    /\ TagsCalled
    /\ call.pc = "done"
    /\ ~call.err
    /\ Len(call.log) = 3
    /\ call.log[3].kind = "200"
    /\ Len(call.tags) > 3

-----------------------------------------------------------------------------
(* Properties of the shared HTTP clients                                   *)

\* The finished getter calls: those that ran with no setter assignment
\* between their first and their last step.
UndisturbedCalls ==
    UNION {{call.procs[p].returned[i] : i \in {j \in 1..Len(call.procs[p].returned) :
                call.procs[p].returned[j].start = call.procs[p].returned[j].end}} : p \in Procs}

AllCalls == UNION {Range(call.procs[p].returned) : p \in Procs}

\* The number of setter calls that stored nil.
NilSets == Cardinality({i \in 1..Len(call.sets) : call.sets[i] = Nil})

\* C26: the getter creates its client at most once; calls, sequential or
\* concurrent, with no setter call between them return the same client, and
\* never nil; after the setter stored a client c that is not nil every later
\* call returns c.
C26_ClientCreatedOnce ==
    pc = "run" =>
        /\ \A x \in AllCalls : x.client # Nil
        /\ \A x, y \in UndisturbedCalls : x.start = y.start => x.client = y.client
        /\ \A x \in UndisturbedCalls :
              (x.start > 0 /\ call.sets[x.start] # Nil) => x.client = call.sets[x.start]
        /\ call.created <= 1 + NilSets
        /\ (call.sets = <<>> => call.created <= 1)

\* Two goroutines found no client and went for the write lock: one has
\* created the client and returned it, the other holds the lock and finds it.
C26_Witness ==
    /\ pc = "run"
    /\ call.sets = <<>>
    /\ call.created = 1
    /\ \E p, q \in Procs :
          /\ call.procs[p].pc = "create"
          /\ call.client # Nil
          /\ Len(call.procs[q].returned) >= 1

\* A call made after the setter stored a caller's client returned it.
C26_WitnessOverride ==
    /\ pc = "run"
    /\ \E x \in UndisturbedCalls : x.start > 0 /\ x.client \in CallerClients

-----------------------------------------------------------------------------
(* Properties of a refresh that learns nothing                             *)

\* An unforced call found a populated cache, fetched successfully and got
\* no tag it did not know.
NoNews(c) ==
    /\ c # NoValue
    /\ c.pc = "done"
    /\ ~c.force
    /\ c.contacted
    /\ ~c.fetchErr
    /\ CachedVersions(c.before) # {}
    /\ StringsOf(FetchedVersions(c)) \subseteq StringsOf(CachedVersions(c.before))

\* The call left the cache file as it found it.
FileUntouched(c, f) == ~c.err /\ ~c.wrote /\ f = c.before

\* The step is the start of the next call, an unforced one.
NextUnforcedCall == call.pc = "done" /\ call' # call /\ ~call'.force

\* C27 as stated: an unforced load on a stale, non-empty cache whose fetch
\* succeeds without a new version does not rewrite the cache file, the
\* modification time stays, and every following unforced load is stale again
\* and contacts the tag source again.
C27_NoNewsNoRewrite ==
    [][ /\ NoNews(call') => FileUntouched(call', cacheFile')
        /\ (NoNews(call) /\ NextUnforcedCall) => call'.contacted ]_vars

\* C27, for following loads whose read of the cache does not fail with an
\* error other than a miss: the file is not rewritten, the modification time
\* stays, and every following unforced load that can read the cache is stale
\* again and contacts the tag source again.
C27_NoNewsNoRewriteWhenReadable ==
    [][ /\ NoNews(call') => FileUntouched(call', cacheFile')
        /\ (NoNews(call) /\ NextUnforcedCall /\ call'.cacheErr # "io") =>
               /\ call'.contacted
               /\ call'.pc = "fetching"
               /\ call'.before = call.before ]_vars

\* A 304 answered an unforced call on an outdated cache.
C27_Witness ==
    /\ NoNews(call)
    /\ call.tags = <<>>
    /\ call.at - call.before.mtime > CacheMaxAge
    /\ cacheFile.mtime = call.before.mtime

-----------------------------------------------------------------------------
(* Properties of the cache across calls                                    *)

CallDone == call # NoValue /\ call.pc = "done"

\* C28: over any sequence of loadAll calls of one caller (forced or not,
\* succeeding or failing) the set of versions in the cache file never
\* shrinks: every version in the cache before a call is in it after the
\* call, and in the collection the call returns, if it returns one.
C28_CacheNeverShrinks ==
    CallDone =>
        /\ CachedVersions(call.before) \subseteq CachedVersions(cacheFile)
        /\ ~call.err => CachedVersions(call.before) \subseteq Range(call.versions)

\* The same for the calls that return no error.
CacheKeptWithoutError ==
    (CallDone /\ ~call.err) =>
        /\ CachedVersions(call.before) \subseteq CachedVersions(cacheFile)
        /\ CachedVersions(call.before) \subseteq Range(call.versions)

-----------------------------------------------------------------------------
(* Two loadAll invocations over one cache file                             *)

\* The two invocations; nothing in collection.go excludes one from the
\* other.
Loaders == {"first", "second"}

\* Tags the upstream repository publishes while the invocations run.
RaceTags == { <<"v", "1">>, <<"v", "1", ".", "1">> }

\* The bytes of a file of lines, each ended by a newline.
FileText(lines) == Concat([i \in 1..Len(lines) |-> lines[i] \o <<"\n">>])

\* The lines bufio.Scanner finds in the bytes of a file.
TextLines(text) ==
    IF text = <<>> THEN <<>>
    ELSE LET parts == Split(text, "\n")
         IN IF parts[Len(parts)] = <<>> THEN SubSeq(parts, 1, Len(parts) - 1) ELSE parts

\* The file after a write of data at offset 0 through a descriptor opened
\* before the file got its present contents: bytes beyond the written ones
\* stay.
Overwritten(f, data, t) ==
    WrittenFile(TextLines(FileText(data) \o SubSeq(FileText(f.lines), Len(FileText(data)) + 1,
                                                   Len(FileText(f.lines)))), t)

IdleLoader ==
    [pc |-> "idle", force |-> FALSE, cacheErr |-> "none", modTime |-> ZeroTime,
     known |-> EmptyMap, result |-> <<>>, data |-> <<>>, err |-> FALSE, versions |-> <<>>]

InitRace ==
    /\ pc = "race"
    /\ in1 = <<>>
    /\ in2 = <<>>
    /\ out = NoValue
    /\ cacheFile \in {NoFile, WrittenFile(<< <<"v", "1">> >>, 1)}
    /\ now = 1
    /\ remote = {}
    /\ call = [procs |-> [p \in Loaders |-> IdleLoader]]
    /\ coll = NoValue
    /\ wr = NoValue
    /\ rd = NoValue

\* This invocation's record replaced.
LoaderBecomes(p, l) == call' = [call EXCEPT !.procs[p] = l]

\* loadAll up to the request to the tag source (lines 147-165).
RaceBegin(p, force) ==
    /\ call.procs[p].pc = "idle"
    /\ \E ioErr \in BOOLEAN :
       \E r \in {newCollectionFromCache(cacheFile, ioErr)} :
       \E known \in {PutAll(EmptyMap, r.collection)} :
       \E started \in {[IdleLoader EXCEPT !.force = force, !.cacheErr = r.err,
                                          !.modTime = r.modTime, !.known = known]} :
         IF r.err = "io"
         THEN LoaderBecomes(p, [started EXCEPT !.pc = "done", !.err = TRUE])
         ELSE IF ~cacheStale(force, r.err, r.modTime, now)
         THEN \E result \in collectionFromMap(known) :
                 LoaderBecomes(p, [started EXCEPT !.pc = "done", !.versions = result])
         ELSE LoaderBecomes(p, [started EXCEPT !.pc = "fetching"])
    /\ UNCHANGED <<pc, in1, in2, out, cacheFile, now, remote, coll, wr, rd>>

\* loadAll from the answer of the tag source to the call of writeCache or
\* to the return without a write (lines 166-190).
RaceFetch(p) ==
    /\ call.procs[p].pc = "fetching"
    /\ \E l \in {call.procs[p]} :
       \E resp \in TagsSince(remote, l.modTime) :
         IF resp.err
         THEN IF fetchErrorReturned(l.force, l.known)
              THEN LoaderBecomes(p, [l EXCEPT !.pc = "done", !.err = TRUE])
              ELSE \E result \in collectionFromMap(l.known) :
                     LoaderBecomes(p, [l EXCEPT !.pc = "done", !.versions = result])
         ELSE \E merged \in {MergeTags(l.known, resp.tags)} :
              \E result \in collectionFromMap(merged) :
                IF cacheRewritten(DOMAIN merged # DOMAIN l.known, l.cacheErr, l.force)
                THEN \E data \in writeCacheData(result) :
                       LoaderBecomes(p, [l EXCEPT !.pc = "opening", !.known = merged,
                                                  !.result = result, !.data = data])
                ELSE LoaderBecomes(p, [l EXCEPT !.pc = "done", !.known = merged,
                                                !.versions = result])
    /\ UNCHANGED <<pc, in1, in2, out, cacheFile, now, remote, coll, wr, rd>>

\* writeCache up to os.WriteFile's open with O_CREATE|O_TRUNC (lines 92-117):
\* the file is emptied, or MkdirAll or the open fails and loadAll returns
\* the error (lines 191-193).
RaceOpen(p) ==
    /\ call.procs[p].pc = "opening"
    /\ \E openErr \in BOOLEAN :
         IF openErr
         THEN /\ LoaderBecomes(p, [call.procs[p] EXCEPT !.pc = "done", !.err = TRUE])
              /\ UNCHANGED cacheFile
         ELSE /\ LoaderBecomes(p, [call.procs[p] EXCEPT !.pc = "writing"])
              /\ cacheFile' = WrittenFile(<<>>, now)
    /\ UNCHANGED <<pc, in1, in2, out, now, remote, coll, wr, rd>>

\* os.WriteFile's write and close, and loadAll's return (lines 191-196): all
\* the data is written and the collection returned, or the write fails
\* after some of it and the error is returned.
RaceWrite(p) ==
    /\ call.procs[p].pc = "writing"
    /\ \E l \in {call.procs[p]} :
       \E k \in 0..Len(l.data) :
         /\ cacheFile' = Overwritten(cacheFile, SubSeq(l.data, 1, k), now)
         /\ IF k < Len(l.data)
            THEN LoaderBecomes(p, [l EXCEPT !.pc = "done", !.err = TRUE])
            ELSE LoaderBecomes(p, [l EXCEPT !.pc = "done", !.versions = l.result])
    /\ UNCHANGED <<pc, in1, in2, out, now, remote, coll, wr, rd>>

\* Upstream publishes a tag while the invocations run.
RacePublish(tag) ==
    /\ \E p \in Loaders : call.procs[p].pc # "done"
    /\ Publish(tag)

\* Time passes while the invocations run.
RaceTick(d) ==
    /\ \E p \in Loaders : call.procs[p].pc # "done"
    /\ Tick(d)

NextRace ==
    \/ \E p \in Loaders, force \in BOOLEAN : RaceBegin(p, force)
    \/ \E p \in Loaders : RaceFetch(p)
    \/ \E p \in Loaders : RaceOpen(p)
    \/ \E p \in Loaders : RaceWrite(p)
    \/ \E tag \in RaceTags : RacePublish(tag)
    \/ RaceTick(CacheMaxAge + 1)

SpecRace == InitRace /\ [][NextRace]_vars

\* Both invocations have returned.
BothDone == pc = "race" /\ \A p \in Loaders : call.procs[p].pc = "done"

\* C29: when two loadAll invocations sharing one cache file have both
\* completed, whatever their interleaving and whatever was published
\* between their fetches, the cache file contains every version that either
\* of them returned.
C29_CacheHoldsAllReturned ==
    BothDone =>
        \A p \in Loaders :
            ~call.procs[p].err => Range(call.procs[p].versions) \subseteq CachedVersions(cacheFile)

\* The same when no write fails and no read of the cache fails.
CacheHoldsAllReturnedWithoutError ==
    (BothDone /\ \A p \in Loaders : ~call.procs[p].err) =>
        \A p \in Loaders : Range(call.procs[p].versions) \subseteq CachedVersions(cacheFile)

====
